---- MODULE Spec2Model ----
(***************************************************************************)
(* Model of the paila code-review SDK core: the data model (models.py),    *)
(* the Reviewer orchestrator (reviewer.py), the Config it reads            *)
(* (config.py), the custom rules (rules/base.py) and the built-in          *)
(* complexity and security analyzers (analyzers/).                         *)
(*                                                                         *)
(* A source text is abstracted by what the code observes of it: the kind   *)
(* of every line of code.split("\n"), the outcome of ast.parse, the        *)
(* functions and classes of the tree, and what every analyzer returns or   *)
(* raises on it.                                                           *)
(***************************************************************************)
EXTENDS Integers, Sequences, FiniteSets, TLC

VARIABLES
    config,        \* Reviewer.config (the fields the orchestrator reads)
    analyzers,     \* Reviewer._analyzers, as the sequence of analyzer names
    cpc,           \* review_code: "idle", "returned" or "raised"
    ctext,         \* review_code: the source text of the call
    cresult,       \* review_code: the FileResult returned
    ctrace,        \* review_code: number of parses, analyzers run, analyzers failed
    fs,            \* review_directory: state of every collected file on disk
    parallel,      \* review_directory: the parallel argument
    max_workers,   \* review_directory: the max_workers argument
    dpc,           \* review_directory: "idle", "processing", "done"
    pending,       \* executor work queue: submitted, not yet started
    running,       \* files whose review_file call is running in a worker
    completed,     \* futures that are done and not yet yielded by as_completed
    yielded,       \* futures as_completed has yielded
    results,       \* the results list of _process_parallel / _process_sequential
    reviewCount,   \* how many times review_file was called on every file
    review,        \* the ReviewResult returned by review_directory
    frIssues,      \* FileResult.issues of a FileResult under construction
    frScore,       \* FileResult.score as last read
    frGrade,       \* FileResult.grade as last read
    calls,         \* repeated reviews: the review_code call of every caller
    log,           \* repeated reviews: the calls returned, in return order
    fpc,           \* one target: "idle", or the call made and how it ended
    ftarget,       \* one target: what is at the path of the call
    fout,          \* one target: the outcome of the call
    kpc,           \* Config(): "idle", "raised", "constructed", "filtered"
    kargs,         \* Config(): the min_severity and output_format arguments
    kprobe,        \* an issue handed to the filter and whether it was kept
    ruleset,       \* RuleSet._rules: rule id -> Rule object, in dict order
    ruleEnabled,   \* Rule.enabled of every Rule object
    rop,           \* the last call made on the RuleSet and what it returned
    added,         \* the ids added and not removed since, in the order of
                   \* their first add, and the rule last added under each id
    absentOnce,    \* the rules a check_all has met disabled in the set
    tdisk,         \* enumeration: the files below the reviewed directory
    trecursive,    \* enumeration: the recursive argument
    tpc,           \* enumeration: "idle" or "collected"
    tfiles,        \* enumeration: the list _collect_files returned
    treviewed,     \* enumeration: the files handed to review_file, in order
    apc,           \* function analysis: "idle" or "analysed"
    afunc,         \* function analysis: the FunctionDef node analysed
    limits,        \* function analysis: the thresholds of the Config
    aout,          \* function analysis: the issues and metrics computed
    aprev,         \* function analysis: the function and output of the
                   \* analysis before the last decision point was added
    mpc,           \* secret check: "idle" or "checked"
    mline,         \* secret check: the source line, character by character
    msecret,       \* secret check: the string literal of the line
    missues,       \* secret check: the hardcoded_secret issues returned
    ppc,           \* one review_code call: "idle", "analyzing", "returned"
                   \* or "raised"
    ptext,         \* one review_code call: the source text
    ptree,         \* one review_code call: the tree _parse_code returned
    pidx,          \* one review_code call: the analyzer the loop is at
    pparses,       \* one review_code call: the ast.parse calls made so far
    phanded,       \* one review_code call: the tree handed to every
                   \* analyzer called so far
    pissues,       \* one review_code call: the issues list
    spc,           \* Reviewer(): "idle" or "constructed"
    custom_analyzers,  \* Reviewer(): the custom_analyzers argument
    builder,       \* RuleBuilder: the attributes of the builder object
    heap,          \* RuleBuilder: the contents of the list and of the dict
                   \* the builder created, by object
    built,         \* RuleBuilder: the Rule objects build() returned
    bcheck         \* RuleBuilder: the last call made and what it returned

vars == <<config, analyzers, cpc, ctext, cresult, ctrace, fs, parallel,
          max_workers, dpc, pending, running, completed, yielded, results,
          reviewCount, review, frIssues, frScore, frGrade, calls, log,
          fpc, ftarget, fout, kpc, kargs, kprobe, ruleset, ruleEnabled, rop,
          added, absentOnce, tdisk, trecursive, tpc, tfiles, treviewed,
          apc, afunc, limits, aout, aprev, mpc, mline, msecret, missues,
          ppc, ptext, ptree, pidx, pparses, phanded, pissues, spc,
          custom_analyzers, builder, heap, built, bcheck>>

codeVars == <<cpc, ctext, cresult, ctrace>>
dirVars == <<fs, parallel, max_workers, dpc, pending, running, completed,
             yielded, results, reviewCount, review>>
scoreVars == <<frIssues, frScore, frGrade>>
repeatVars == <<calls, log>>
fileVars == <<fpc, ftarget, fout>>
configVars == <<kpc, kargs, kprobe>>
ruleVars == <<ruleset, ruleEnabled, rop, added, absentOnce>>
collectVars == <<tdisk, trecursive, tpc, tfiles, treviewed>>
astVars == <<apc, afunc, limits, aout, aprev>>

\* the variables of the specifications of single operations
maskVars == <<mpc, mline, msecret, missues>>
parseVars == <<ppc, ptext, ptree, pidx, pparses, phanded, pissues>>
setupVars == <<spc, custom_analyzers>>
builderVars == <<builder, heap, built, bcheck>>
lateVars == <<astVars, maskVars, parseVars, setupVars, builderVars>>

\* the variables of the specifications of whole reviews
baseVars == <<config, analyzers, codeVars, dirVars, scoreVars, repeatVars,
              fileVars, configVars, ruleVars, collectVars>>

\* the variables a step of one specification leaves alone
otherThanAst == <<baseVars, maskVars, parseVars, setupVars, builderVars>>
otherThanMask == <<baseVars, astVars, parseVars, setupVars, builderVars>>
otherThanParse == <<baseVars, astVars, maskVars, setupVars, builderVars>>
otherThanBuilder == <<baseVars, astVars, maskVars, parseVars, setupVars>>

\* the variables of the other specifications
restVars ==
    <<repeatVars, fileVars, configVars, ruleVars, collectVars, lateVars>>

-----------------------------------------------------------------------------
(* Bounds of the model *)

MaxIssues == 2
NFiles == 3
MaxWorkers == 2
MaxFileIssues == 7
MaxReviews == 3
MaxStmts == 1
MaxNest == 5
MaxLimit == 3
MaxSecretLen == 7
MaxBuilt == 2
MaxTags == 1
MaxMatches == 2

-----------------------------------------------------------------------------
(* Generic helpers *)

SeqsUpTo(S, n) == UNION {[1..k -> S] : k \in 0..n}

RECURSIVE SumSeq(_)
SumSeq(s) == IF s = <<>> THEN 0 ELSE s[1] + SumSeq(Tail(s))

RECURSIVE MaxSeq(_)
MaxSeq(s) ==
    IF s = <<>> THEN 0
    ELSE LET m == MaxSeq(Tail(s)) IN IF s[1] > m THEN s[1] ELSE m

CountIn(s, x) == Cardinality({i \in 1..Len(s) : s[i] = x})

RECURSIVE Concat(_)
Concat(ss) == IF ss = <<>> THEN <<>> ELSE ss[1] \o Concat(Tail(ss))

\* round(num / den, 2) in hundredths, for den > 0
RoundHundredths(num, den) == (200 * num + den) \div (2 * den)

-----------------------------------------------------------------------------
(* Ordered dictionaries: a Python dict is a sequence of <<key, value>>      *)
(* pairs in insertion order.                                               *)

DictKeys(d) == {d[i][1] : i \in 1..Len(d)}

DictKeyOrder(d) == [i \in 1..Len(d) |-> d[i][1]]

DictGet(d, k, default) ==
    IF k \in DictKeys(d)
    THEN d[CHOOSE i \in 1..Len(d) : d[i][1] = k][2]
    ELSE default

\* d[k] = v: an existing key keeps its position, a new key goes last
DictSet(d, k, v) ==
    IF k \in DictKeys(d)
    THEN [i \in 1..Len(d) |-> IF d[i][1] = k THEN <<k, v>> ELSE d[i]]
    ELSE Append(d, <<k, v>>)

\* d1 == d2 in Python: the same keys with the same values, in any order
DictEq(d1, d2) == {d1[i] : i \in 1..Len(d1)} = {d2[i] : i \in 1..Len(d2)}

DictValueSum(d) == SumSeq([i \in 1..Len(d) |-> d[i][2]])

-----------------------------------------------------------------------------
(* models.py *)

Severity == {"critical", "high", "medium", "low", "info"}

\* one issue type per built-in analyzer (IssueType)
IssueTypeOf(a) ==
    CASE a = "complexity" -> "high_complexity"
      [] a = "security" -> "hardcoded_secret"
      [] a = "smells" -> "todo_comment"
      [] OTHER -> "custom"

Issue(type, severity, file, line, rule) ==
    [type |-> type, severity |-> severity, file |-> file, line |-> line,
     rule |-> rule]

Metrics(loc, total, blank, comment, functions, classes, avg, max) ==
    [lines_of_code |-> loc, total_lines |-> total, blank_lines |-> blank,
     comment_lines |-> comment, functions |-> functions, classes |-> classes,
     avg_complexity |-> avg, max_complexity |-> max]

\* Metrics(): every counter at its default
DefaultMetrics == Metrics(0, 0, 0, 0, 0, 0, 0, 0)

FileResult(file, issues, metrics, skipped) ==
    [file |-> file, issues |-> issues, metrics |-> metrics,
     skipped |-> skipped, error |-> ""]

severity_deductions ==
    [critical |-> 15, high |-> 10, medium |-> 5, low |-> 2, info |-> 0]

Clamp100(x) ==
    LET lo == IF x < 100 THEN x ELSE 100 IN IF lo > 0 THEN lo ELSE 0

MutScoreNoClamp(issues) ==
    100 - SumSeq([i \in 1..Len(issues) |->
                     severity_deductions[issues[i].severity]])

\* the loop with score = 100 set inside it: only the last issue is deducted
RECURSIVE MutScoreLoop(_, _)
MutScoreLoop(issues, score) ==
    IF issues = <<>> THEN score
    ELSE MutScoreLoop(Tail(issues),
                      100 - severity_deductions[issues[1].severity])

\* FileResult.score, lines 226-227: the loop over self.issues
RECURSIVE ScoreLoop(_, _)
ScoreLoop(issues, score) ==
    IF issues = <<>> THEN score
    ELSE ScoreLoop(Tail(issues),
                   score - (IF issues[1].severity \in DOMAIN severity_deductions
                            THEN severity_deductions[issues[1].severity]
                            ELSE 0))

\* FileResult.score
FileResultScore(issues) == Clamp100(ScoreLoop(issues, 100))

\* FileResult.grade
GradeOf(score) ==
    IF score >= 90 THEN "A"
    ELSE IF score >= 80 THEN "B"
    ELSE IF score >= 70 THEN "C"
    ELSE IF score >= 60 THEN "D"
    ELSE "F"

\* ReviewResult.score, lines 279-285: the weights by severity value
review_severity_deductions ==
    [critical |-> 15, high |-> 10, medium |-> 5, low |-> 2, info |-> 0]

\* the loop deducting the weight of a severity once, whatever its count
RECURSIVE MutReviewScoreLoop(_, _)
MutReviewScoreLoop(items, score) ==
    IF items = <<>> THEN score
    ELSE MutReviewScoreLoop(Tail(items),
                            score - review_severity_deductions[items[1][1]])

\* ReviewResult.score, lines 287-289: the loop over issues_by_severity.items()
RECURSIVE ReviewScoreLoop(_, _)
ReviewScoreLoop(items, score) ==
    IF items = <<>> THEN score
    ELSE LET deduction ==
                 IF items[1][1] \in DOMAIN review_severity_deductions
                 THEN review_severity_deductions[items[1][1]]
                 ELSE 0
         IN ReviewScoreLoop(Tail(items), score - deduction * items[1][2])

\* ReviewResult.score
ReviewResultScore(issues_by_severity) ==
    Clamp100(ReviewScoreLoop(issues_by_severity, 100))

\* ReviewResult.grade
ReviewResultGrade(score) ==
    IF score >= 90 THEN "A"
    ELSE IF score >= 80 THEN "B"
    ELSE IF score >= 70 THEN "C"
    ELSE IF score >= 60 THEN "D"
    ELSE "F"

-----------------------------------------------------------------------------
(* config.py *)

valid_severities == {"critical", "high", "medium", "low", "info"}

\* str.lower() on the min_severity strings of the model
Lower(s) ==
    CASE s = "HIGH" -> "high"
      [] s = "Critical" -> "critical"
      [] OTHER -> s

\* the min_severity arguments tried
MinSeverityInputs == Severity \cup {"HIGH", "Critical", "urgent"}

\* Config.__post_init__: the min_severity check passes
ConfigAccepts(min_severity) == Lower(min_severity) \in valid_severities

valid_formats == {"terminal", "json", "markdown", "html"}

\* str.lower() on the output_format strings of the model
LowerFormat(s) ==
    CASE s = "JSON" -> "json"
      [] s = "Html" -> "html"
      [] OTHER -> s

\* the output_format arguments tried
OutputFormatInputs == valid_formats \cup {"JSON", "Html", "pdf"}

\* Config.__post_init__: the output_format check passes
FormatAccepts(output_format) == LowerFormat(output_format) \in valid_formats

DefaultAnalyzers == <<"complexity", "security", "smells">>

\* the entries of the default ignore lists that the paths of the model can
\* match; include_patterns is empty by default
DefaultIgnorePaths == <<"venv/", "env/">>

DefaultIgnoreFiles == <<"*.pyc">>

Config(min_severity) ==
    [min_severity |-> min_severity, analyzers |-> DefaultAnalyzers,
     ignore_paths |-> DefaultIgnorePaths, ignore_files |-> DefaultIgnoreFiles,
     include_patterns |-> <<>>, output_format |-> "terminal"]

\* Config(min_severity=..., output_format=...): the exception raised by
\* __post_init__ if any, and the object built otherwise
NewConfig(min_severity, output_format) ==
    IF ~ConfigAccepts(min_severity) \/ ~FormatAccepts(output_format)
    THEN [error |-> "ValueError", config |-> Config("info")]
    ELSE [error |-> "",
          config |-> [Config(min_severity) EXCEPT
                         !.output_format = output_format]]

-----------------------------------------------------------------------------
(* Source texts *)

LineKinds == {"code", "blank", "comment"}

\* what ast.parse does on a text: returns a tree, raises SyntaxError, or
\* raises another exception (RecursionError, MemoryError, ValueError)
ParseOutcomes == {"tree", "SyntaxError", "RecursionError"}

Text(lines, parse, funcs, classes, emitted, raising) ==
    [lines |-> lines, parse |-> parse, funcs |-> funcs, classes |-> classes,
     emitted |-> emitted, raising |-> raising]

\* lines, parse outcome and tree content (the cyclomatic complexity of every
\* function of the tree, the number of classes) of the texts tried
SourceShapes ==
    { <<(<<"blank">>), "tree", <<>>, 0>>,
      <<(<<"code", "code", "blank">>), "tree", <<1, 2>>, 1>>,
      <<(<<"comment", "code", "code">>), "tree", <<4>>, 0>>,
      <<(<<"code", "comment">>), "SyntaxError", <<>>, 0>>,
      <<(<<"code">>), "RecursionError", <<>>, 0>> }

SeqRange(s) == {s[i] : i \in 1..Len(s)}

IndexIn(s, x) == CHOOSE i \in 1..Len(s) : s[i] = x

\* what the detectors of the analyzers find in the text: the analyzer that
\* reports the issue and the issue's severity, listed analyzer by analyzer
Emissions(as) ==
    { e \in SeqsUpTo([analyzer : SeqRange(as), severity : Severity], MaxIssues) :
        \A i \in 1..Len(e) : \A j \in i..Len(e) :
            IndexIn(as, e[i].analyzer) <= IndexIn(as, e[j].analyzer) }

CodeTexts(as) ==
    { Text(sh[1], sh[2], sh[3], sh[4], e, r) :
        sh \in SourceShapes, e \in Emissions(as), r \in SUBSET SeqRange(as) }

-----------------------------------------------------------------------------
(* analyzers/base.py, reviewer.py: single-file review *)

\* Reviewer._setup_analyzers: built-ins in analyzer_map order, then customs
analyzer_map == <<"complexity", "security", "smells">>

\* the objects handed as custom analyzers: two BaseAnalyzer instances and
\* an object of another class
CustomAnalyzers == {"custom1", "custom2"}

CustomObjects == CustomAnalyzers \cup {"object"}

\* isinstance(analyzer, BaseAnalyzer)
IsBaseAnalyzer(analyzer) == analyzer \in CustomAnalyzers

\* the built-ins appended in the order config.analyzers names them
MutSetupAnalyzers(cfg, customs) ==
    SelectSeq(cfg.analyzers, LAMBDA n : n \in SeqRange(analyzer_map))
        \o SelectSeq(customs, IsBaseAnalyzer)

SetupAnalyzers(cfg, customs) ==
    SelectSeq(analyzer_map, LAMBDA n : n \in SeqRange(cfg.analyzers))
        \o SelectSeq(customs, IsBaseAnalyzer)

\* the tree handed to the analyzers and to _calculate_metrics; present is
\* FALSE for None
Tree(present, funcs, classes) ==
    [present |-> present, funcs |-> funcs, classes |-> classes]

NoTree == Tree(FALSE, <<>>, 0)

\* Reviewer._parse_code: [raised, tree]
ParseCode(text) ==
    IF text.parse = "tree"
    THEN [raised |-> FALSE, tree |-> Tree(TRUE, text.funcs, text.classes)]
    ELSE IF text.parse = "SyntaxError"
    THEN [raised |-> FALSE, tree |-> NoTree]
    ELSE [raised |-> TRUE, tree |-> NoTree]

\* the detectors of an analyzer run on the text: [raised, issues]
RunDetectors(a, text, file_path) ==
    IF a \in text.raising
    THEN [raised |-> TRUE, issues |-> <<>>]
    ELSE LET idx == SelectSeq([i \in 1..Len(text.emitted) |-> i],
                              LAMBDA i : text.emitted[i].analyzer = a)
         IN [raised |-> FALSE,
             issues |-> [k \in 1..Len(idx) |->
                            Issue(IssueTypeOf(a),
                                  text.emitted[idx[k]].severity,
                                  file_path, idx[k], a)]]

\* analyze running its raw-line detectors whether or not the text parses
MutAnalyze(a, text, file_path) == RunDetectors(a, text, file_path)

\* analyzer.analyze(code, file_path, tree): the tree handed over is None for
\* a text that does not parse, the analyzer parses the text again, gets None
\* again and returns no issue before any detector runs
Analyze(a, text, file_path) ==
    IF text.parse = "SyntaxError"
    THEN [raised |-> FALSE, issues |-> <<>>]
    ELSE IF text.parse # "tree"
    THEN [raised |-> TRUE, issues |-> <<>>]
    ELSE RunDetectors(a, text, file_path)

severity_order ==
    [critical |-> 0, high |-> 1, medium |-> 2, low |-> 3, info |-> 4]

SeverityLevel(sev) ==
    IF sev \in DOMAIN severity_order THEN severity_order[sev] ELSE 4

\* Reviewer._filter_by_severity
FilterBySeverity(cfg, issues) ==
    SelectSeq(issues, LAMBDA issue :
        SeverityLevel(issue.severity) <= SeverityLevel(cfg.min_severity))

\* Reviewer._calculate_metrics
CalculateMetrics(text, tree) ==
    LET total_lines == Len(text.lines)
        blank_lines == CountIn(text.lines, "blank")
        comment_lines == CountIn(text.lines, "comment")
        complexity_values == IF tree.present THEN tree.funcs ELSE <<>>
    IN Metrics(total_lines - blank_lines - comment_lines,
               total_lines, blank_lines, comment_lines,
               Len(complexity_values),
               IF tree.present THEN tree.classes ELSE 0,
               IF complexity_values # <<>>
               THEN RoundHundredths(SumSeq(complexity_values),
                                    Len(complexity_values))
               ELSE 0,
               MaxSeq(complexity_values))

\* the analyzer loop of review_code stopping at the first analyzer that raises
RECURSIVE MutRunAnalyzers(_, _, _, _, _)
MutRunAnalyzers(cfg, as, text, file_path, acc) ==
    IF as = <<>> THEN acc
    ELSE LET out == Analyze(as[1], text, file_path)
         IN IF out.raised
            THEN [acc EXCEPT !.ran = Append(@, as[1]),
                             !.failed = @ \cup {as[1]}]
            ELSE MutRunAnalyzers(cfg, Tail(as), text, file_path,
                    [acc EXCEPT !.ran = Append(@, as[1]),
                                !.issues = @ \o FilterBySeverity(cfg, out.issues)])

\* review_code, lines 110-120: the loop over self._analyzers
RECURSIVE RunAnalyzers(_, _, _, _, _)
RunAnalyzers(cfg, as, text, file_path, acc) ==
    IF as = <<>> THEN acc
    ELSE LET out == Analyze(as[1], text, file_path)
         IN RunAnalyzers(cfg, Tail(as), text, file_path,
                IF out.raised
                THEN [acc EXCEPT !.ran = Append(@, as[1]),
                                 !.failed = @ \cup {as[1]}]
                ELSE [acc EXCEPT !.ran = Append(@, as[1]),
                                 !.issues = @ \o FilterBySeverity(cfg, out.issues)])

NoTrace == [parses |-> 0, ran |-> <<>>, failed |-> {}]

NoFileResult == FileResult("", <<>>, DefaultMetrics, FALSE)

\* Reviewer.review_code: [raised, result, trace]
ReviewCodeOf(cfg, as, text, file_path) ==
    LET p == ParseCode(text)
    IN IF p.raised
       THEN [raised |-> TRUE, result |-> NoFileResult,
             trace |-> [NoTrace EXCEPT !.parses = 1]]
       ELSE LET run == RunAnalyzers(cfg, as, text, file_path,
                            [issues |-> <<>>, ran |-> <<>>, failed |-> {}])
            IN [raised |-> FALSE,
                result |-> FileResult(file_path, run.issues,
                                      CalculateMetrics(text, p.tree), FALSE),
                trace |-> [parses |-> 1, ran |-> run.ran,
                           failed |-> run.failed]]

NoText == Text(<<"blank">>, "tree", <<>>, 0, <<>>, {})

\* reviewer.review_code(code) on one of the texts
ReviewCodeFrom(texts) ==
    /\ cpc = "idle"
    /\ \E text \in texts :
         \E r \in {ReviewCodeOf(config, analyzers, text, "<string>")} :
            /\ ctext' = text
            /\ cresult' = r.result
            /\ ctrace' = r.trace
            /\ cpc' = IF r.raised THEN "raised" ELSE "returned"
    /\ UNCHANGED <<restVars, config, analyzers, dirVars, scoreVars>>

\* reviewer.review_code(code) on a Reviewer built with the configuration
ReviewCode == ReviewCodeFrom(CodeTexts(analyzers))

-----------------------------------------------------------------------------
(* reviewer.py: directory review *)

\* the paths a directory may hold, in sorted order
Paths == <<"a.py", "b.py", "c.py", "d.py", "e.py", "f.py">>

PathIndex(p) == CHOOSE i \in 1..Len(Paths) : Paths[i] = p

\* sorted(files)
RECURSIVE SortPaths(_)
SortPaths(S) ==
    IF S = {} THEN <<>>
    ELSE LET least == CHOOSE p \in S :
                          \A q \in S : PathIndex(p) <= PathIndex(q)
         IN <<least>> \o SortPaths(S \ {least})

\* what a collected file is when its review runs: it cannot be read
\* (removed, no permission), or it holds one of these texts
FileKinds == {"unreadable", "smelly", "risky", "broken", "deep"}

TextOf(kind) ==
    CASE kind = "smelly" ->
           Text(<<"code", "blank">>, "tree", <<1>>, 0,
                <<[analyzer |-> "smells", severity |-> "medium"],
                  [analyzer |-> "smells", severity |-> "low"]>>, {})
      [] kind = "risky" ->
           Text(<<"comment", "code", "code">>, "tree", <<2, 3>>, 1,
                <<[analyzer |-> "security", severity |-> "critical"],
                  [analyzer |-> "security", severity |-> "high"],
                  [analyzer |-> "security", severity |-> "high"],
                  [analyzer |-> "smells", severity |-> "low"]>>,
                {"complexity"})
      [] kind = "broken" ->
           Text(<<"comment", "code">>, "SyntaxError", <<>>, 0,
                <<[analyzer |-> "smells", severity |-> "info"]>>, {})
      [] kind = "deep" ->
           Text(<<"code">>, "RecursionError", <<>>, 0, <<>>, {})
      [] OTHER -> NoText

\* the min_severity settings of the directory runs
DirMinSeverities == {"info", "high"}

\* Reviewer._collect_files: every path of the directory passes
\* _should_analyze_file here
CollectFiles(disk) == SortPaths(DOMAIN disk)

\* Reviewer.review_file on a collected file: [raised, result]
ReviewFileOf(cfg, as, disk, path) ==
    IF disk[path] = "unreadable"
    THEN [raised |-> TRUE, result |-> NoFileResult]
    ELSE LET r == ReviewCodeOf(cfg, as, TextOf(disk[path]), path)
         IN [raised |-> r.raised, result |-> r.result]

\* _process_sequential stopping at the first file whose review raises
RECURSIVE MutProcessSequential(_, _, _, _)
MutProcessSequential(cfg, as, disk, files) ==
    IF files = <<>> THEN <<>>
    ELSE LET r == ReviewFileOf(cfg, as, disk, files[1])
         IN IF r.raised THEN <<>>
            ELSE <<r.result>> \o MutProcessSequential(cfg, as, disk, Tail(files))

\* Reviewer._process_sequential
RECURSIVE ProcessSequential(_, _, _, _)
ProcessSequential(cfg, as, disk, files) ==
    IF files = <<>> THEN <<>>
    ELSE LET r == ReviewFileOf(cfg, as, disk, files[1])
         IN (IF r.raised THEN <<>> ELSE <<r.result>>)
                \o ProcessSequential(cfg, as, disk, Tail(files))

ReviewResult(files, total, by_severity, by_type, by_file, metrics, has) ==
    [files |-> files, total_issues |-> total,
     issues_by_severity |-> by_severity, issues_by_type |-> by_type,
     issues_by_file |-> by_file, metrics |-> metrics, has_metrics |-> has]

NoReview == ReviewResult(<<>>, 0, <<>>, <<>>, <<>>, DefaultMetrics, FALSE)

\* the counting loops setting every count to 1 instead of adding 1
RECURSIVE MutCountInto(_, _)
MutCountInto(d, keys) ==
    IF keys = <<>> THEN d
    ELSE MutCountInto(DictSet(d, keys[1], 1), Tail(keys))

\* d[key] = d.get(key, 0) + 1 for the keys of a list, in order
RECURSIVE CountInto(_, _)
CountInto(d, keys) ==
    IF keys = <<>> THEN d
    ELSE CHOOSE r \in {CountInto(nd, rest) :
                           nd \in {DictSet(d, keys[1],
                                           DictGet(d, keys[1], 0) + 1)},
                           rest \in {Tail(keys)}} : TRUE

\* issues_by_file[result.file] = result.issues for the results, in order
RECURSIVE IndexByFile(_, _)
IndexByFile(d, rs) ==
    IF rs = <<>> THEN d
    ELSE IndexByFile(DictSet(d, rs[1].file, rs[1].issues), Tail(rs))

\* Reviewer._aggregate_results
AggregateResults(file_results) ==
    LET kept == SelectSeq(file_results, LAMBDA r : ~r.skipped)
        all_issues == Concat([i \in 1..Len(kept) |-> kept[i].issues])
        complexity_values ==
            SelectSeq([i \in 1..Len(kept) |-> kept[i].metrics.avg_complexity],
                      LAMBDA v : v > 0)
    IN ReviewResult(
         file_results,
         Len(all_issues),
         CountInto(<<>>, [i \in 1..Len(all_issues) |-> all_issues[i].severity]),
         CountInto(<<>>, [i \in 1..Len(all_issues) |-> all_issues[i].type]),
         IndexByFile(<<>>, kept),
         Metrics(SumSeq([i \in 1..Len(kept) |-> kept[i].metrics.lines_of_code]),
                 SumSeq([i \in 1..Len(kept) |-> kept[i].metrics.total_lines]),
                 0, 0,
                 SumSeq([i \in 1..Len(kept) |-> kept[i].metrics.functions]),
                 SumSeq([i \in 1..Len(kept) |-> kept[i].metrics.classes]),
                 IF complexity_values # <<>>
                 THEN RoundHundredths(SumSeq(complexity_values),
                                      Len(complexity_values))
                 ELSE 0,
                 0),
         TRUE)

\* review_directory, lines 192-198: no file collected
EmptyReview == ReviewResult(<<>>, 0, <<>>, <<>>, <<>>, DefaultMetrics, FALSE)

\* review_directory run to its end on the calling thread: parallel is off
\* or at most one file was collected
ReviewDirectorySequential ==
    /\ dpc = "idle"
    /\ ~(parallel /\ Len(CollectFiles(fs)) > 1)
    /\ LET files == CollectFiles(fs)
       IN /\ results' = ProcessSequential(config, analyzers, fs, files)
          /\ reviewCount' = [p \in DOMAIN fs |-> reviewCount[p] + 1]
          /\ review' = IF files = <<>> THEN EmptyReview
                       ELSE AggregateResults(results')
    /\ dpc' = "done"
    /\ UNCHANGED <<restVars, config, analyzers, codeVars, scoreVars, fs,
                   parallel, max_workers, pending, running, completed,
                   yielded>>

\* review_directory entering _process_parallel: every file is submitted
ReviewDirectoryParallel ==
    /\ dpc = "idle"
    /\ parallel /\ Len(CollectFiles(fs)) > 1
    /\ pending' = CollectFiles(fs)
    /\ dpc' = "processing"
    /\ UNCHANGED <<restVars, config, analyzers, codeVars, scoreVars, fs,
                   parallel, max_workers, running, completed, yielded,
                   results, reviewCount, review>>

\* a pool that starts a thread for every submitted item, whatever max_workers
MutWorkerStart ==
    /\ dpc = "processing"
    /\ pending # <<>>
    /\ running' = running \cup {Head(pending)}
    /\ pending' = Tail(pending)
    /\ reviewCount' = [reviewCount EXCEPT ![Head(pending)] = @ + 1]
    /\ UNCHANGED <<restVars, config, analyzers, codeVars, scoreVars, fs,
                   parallel, max_workers, dpc, completed, yielded, results,
                   review>>

\* a worker thread of the pool takes the next work item and calls review_file
WorkerStart ==
    /\ dpc = "processing"
    /\ pending # <<>>
    /\ Cardinality(running) < max_workers
    /\ running' = running \cup {Head(pending)}
    /\ pending' = Tail(pending)
    /\ reviewCount' = [reviewCount EXCEPT ![Head(pending)] = @ + 1]
    /\ UNCHANGED <<restVars, config, analyzers, codeVars, scoreVars, fs,
                   parallel, max_workers, dpc, completed, yielded, results,
                   review>>

\* the worker's review_file call returns or raises: the future is done
WorkerFinish ==
    /\ dpc = "processing"
    /\ \E p \in running :
         /\ running' = running \ {p}
         /\ completed' = completed \cup {p}
    /\ UNCHANGED <<restVars, config, analyzers, codeVars, scoreVars, fs,
                   parallel, max_workers, dpc, pending, yielded, results,
                   reviewCount, review>>

\* the as_completed loop leaving at the first future that raised: the
\* executor still joins its workers, the other results are never collected
MutAsCompleted ==
    /\ dpc = "processing"
    /\ \E p \in completed :
         \E r \in {ReviewFileOf(config, analyzers, fs, p)} :
            IF r.raised
            THEN /\ pending' = <<>> /\ running' = {} /\ completed' = {}
                 /\ yielded' = DOMAIN fs
                 /\ reviewCount' = [q \in DOMAIN fs |-> 1]
                 /\ results' = results
            ELSE /\ completed' = completed \ {p}
                 /\ yielded' = yielded \cup {p}
                 /\ results' = Append(results, r.result)
                 /\ UNCHANGED <<pending, running, reviewCount>>
    /\ UNCHANGED <<restVars, config, analyzers, codeVars, scoreVars, fs,
                   parallel, max_workers, dpc, review>>

\* one iteration of the as_completed loop, lines 326-333
AsCompleted ==
    /\ dpc = "processing"
    /\ \E p \in completed :
         \E r \in {ReviewFileOf(config, analyzers, fs, p)} :
            /\ completed' = completed \ {p}
            /\ yielded' = yielded \cup {p}
            /\ results' = IF r.raised THEN results
                          ELSE Append(results, r.result)
    /\ UNCHANGED <<restVars, config, analyzers, codeVars, scoreVars, fs,
                   parallel, max_workers, dpc, pending, running, reviewCount,
                   review>>

MutAllFuturesDone == yielded # {}

\* as_completed is exhausted and the executor's with block has joined the
\* workers
AllFuturesDone ==
    /\ pending = <<>> /\ running = {} /\ completed = {}
    /\ yielded = DOMAIN fs

\* _process_parallel returns; review_directory aggregates and returns
ReviewDirectoryReturn ==
    /\ dpc = "processing"
    /\ AllFuturesDone
    /\ review' = AggregateResults(results)
    /\ dpc' = "done"
    /\ UNCHANGED <<restVars, config, analyzers, codeVars, scoreVars, fs,
                   parallel, max_workers, pending, running, completed,
                   yielded, results, reviewCount>>

-----------------------------------------------------------------------------
(* reviewer.py: the paths handed to review_file and review_directory *)

\* a path: the names of its directories and its file name
PathOf(dirs, name) == [dirs |-> dirs, name |-> name]

\* path.suffix.lower()
SuffixLower(name) ==
    CASE name = "notes.txt" -> ".txt"
      [] name = "cache.pyc" -> ".pyc"
      [] OTHER -> ".py"

\* dir.endswith(x) on the directory names of the model
EndsWith(dir, x) ==
    \/ dir = x
    \/ dir = "myenv" /\ x = "env"
    \/ dir = "venv" /\ x = "env"

\* pattern in str(path), for an ignore_paths pattern "<x>/": a directory
\* name of the path ends with x
InPathStr(pattern, path) ==
    LET x == CASE pattern = "venv/" -> "venv"
               [] pattern = "env/" -> "env"
               [] pattern = "build/" -> "build"
               [] OTHER -> pattern
    IN \E i \in 1..Len(path.dirs) : EndsWith(path.dirs[i], x)

\* path.match(pattern) for a pattern without a slash: the glob is matched
\* against the file name
PathMatch(path, pattern) ==
    CASE pattern = "*.pyc" -> path.name = "cache.pyc"
      [] pattern = "test_*.py" -> path.name = "test_d.py"
      [] pattern = "keep.py" -> path.name = "keep.py"
      [] pattern = "*.py" -> path.name \notin {"notes.txt", "cache.pyc"}
      [] OTHER -> FALSE

\* Reviewer._should_analyze_file
ShouldAnalyzeFile(cfg, path) ==
    IF SuffixLower(path.name) \notin {".py", ".pyi"} THEN FALSE
    ELSE IF \E i \in 1..Len(cfg.ignore_paths) :
                InPathStr(cfg.ignore_paths[i], path) THEN FALSE
    ELSE IF \E i \in 1..Len(cfg.ignore_files) :
                PathMatch(path, cfg.ignore_files[i]) THEN FALSE
    ELSE TRUE

-----------------------------------------------------------------------------
(* reviewer.py: the files review_directory collects *)

\* the files a reviewed directory may hold
DiskPaths ==
    { PathOf(<<>>, "a.py"), PathOf(<<"src">>, "c.py"),
      PathOf(<<"src">>, "test_d.py"), PathOf(<<"src">>, "notes.txt"),
      PathOf(<<"venv">>, "b.py"), PathOf(<<"venv">>, "keep.py"),
      PathOf(<<"myenv">>, "e.py") }

\* the parts of a path, as Path orders them
PartsOf(path) == path.dirs \o <<path.name>>

\* the rank of a part among the parts of the model in str order
PartRank(part) ==
    CASE part = "a.py" -> 1
      [] part = "b.py" -> 2
      [] part = "c.py" -> 3
      [] part = "e.py" -> 4
      [] part = "keep.py" -> 5
      [] part = "myenv" -> 6
      [] part = "notes.txt" -> 7
      [] part = "src" -> 8
      [] part = "test_d.py" -> 9
      [] OTHER -> 10

\* Path.__lt__: the parts compared as tuples
RECURSIVE PartsLess(_, _)
PartsLess(p, q) ==
    IF q = <<>> THEN FALSE
    ELSE IF p = <<>> THEN TRUE
    ELSE IF PartRank(p[1]) # PartRank(q[1])
    THEN PartRank(p[1]) < PartRank(q[1])
    ELSE PartsLess(Tail(p), Tail(q))

\* sorted(files)
RECURSIVE SortFiles(_)
SortFiles(S) ==
    IF S = {} THEN <<>>
    ELSE LET least == CHOOSE p \in S :
                          \A q \in S \ {p} : PartsLess(PartsOf(p), PartsOf(q))
         IN <<least>> \o SortFiles(S \ {least})

\* directory.glob("**/*.py") or directory.glob("*.py")
GlobPy(disk, is_recursive) ==
    {p \in disk : PathMatch(p, "*.py") /\ (is_recursive \/ p.dirs = <<>>)}

\* Reviewer._collect_files
CollectFilesIn(cfg, disk, is_recursive) ==
    SortFiles({p \in GlobPy(disk, is_recursive) : ShouldAnalyzeFile(cfg, p)})

\* the ignore and include settings tried
IgnorePathSettings == {<<>>, <<"venv/">>, DefaultIgnorePaths}

IgnoreFileSettings == {DefaultIgnoreFiles, <<"*.pyc", "test_*.py">>}

IncludeSettings == {<<>>, <<"keep.py">>, <<"*.py">>}

\* review_directory, line 189: files = self._collect_files(dir_path, recursive)
Collect ==
    /\ tpc = "idle"
    /\ tfiles' = CollectFilesIn(config, tdisk, trecursive)
    /\ tpc' = "collected"
    /\ UNCHANGED <<tdisk, trecursive, treviewed, repeatVars, fileVars,
                   configVars, ruleVars, config, analyzers, codeVars, dirVars,
                   scoreVars, lateVars>>

\* review_directory, lines 201-206: a collected file is handed to review_file
Process ==
    /\ tpc = "collected"
    /\ Len(treviewed) < Len(tfiles)
    /\ treviewed' = Append(treviewed, tfiles[Len(treviewed) + 1])
    /\ UNCHANGED <<tpc, tfiles, tdisk, trecursive, repeatVars, fileVars,
                   configVars, ruleVars, config, analyzers, codeVars, dirVars,
                   scoreVars, lateVars>>

-----------------------------------------------------------------------------
(* reviewer.py: review_file and review_directory on one target *)

\* what is at the path handed over: nothing, a directory, or a file that
\* can be read or not, holds UTF-8 or not, with the text of a kind
Target(path, on_disk, readable, utf8, kind) ==
    [path |-> path, on_disk |-> on_disk, readable |-> readable,
     utf8 |-> utf8, kind |-> kind]

Targets ==
    { Target(PathOf(<<"src">>, "gone.py"), "nothing", FALSE, FALSE, "broken"),
      Target(PathOf(<<"src">>, "pkg.py"), "directory", FALSE, FALSE, "broken"),
      Target(PathOf(<<"src">>, "locked.py"), "file", FALSE, TRUE, "smelly"),
      Target(PathOf(<<"src">>, "notes.txt"), "file", TRUE, TRUE, "smelly"),
      Target(PathOf(<<"venv">>, "b.py"), "file", TRUE, TRUE, "risky") }
    \cup { Target(PathOf(<<"src">>, "c.py"), "file", TRUE, utf8, kind) :
             utf8 \in BOOLEAN,
             kind \in {"smelly", "risky", "broken", "deep"} }

\* the outcome of a call on a target: what was raised if anything, how often
\* read_text was called, whether review_code was entered, the result
Outcome(error, reads, analyzed, result) ==
    [error |-> error, reads |-> reads, analyzed |-> analyzed,
     result |-> result]

\* Reviewer.review_file
ReviewFileOn(cfg, as, target) ==
    IF target.on_disk = "nothing"
    THEN Outcome("FileNotFoundError", 0, FALSE, NoFileResult)
    ELSE IF ~ShouldAnalyzeFile(cfg, target.path)
    THEN Outcome("", 0, FALSE,
                 FileResult(target.path.name, <<>>, DefaultMetrics, TRUE))
    ELSE IF target.on_disk = "directory"
    THEN Outcome("IsADirectoryError", 1, FALSE, NoFileResult)
    ELSE IF ~target.readable
    THEN Outcome("PermissionError", 1, FALSE, NoFileResult)
    ELSE LET reads == IF target.utf8 THEN 1 ELSE 2
             r == ReviewCodeOf(cfg, as, TextOf(target.kind), target.path.name)
         IN IF r.raised
            THEN Outcome("RecursionError", reads, TRUE, NoFileResult)
            ELSE Outcome("", reads, TRUE, r.result)

\* Reviewer.review_directory, lines 181-186, on a target that is not a
\* directory; a directory is reviewed by the directory specification
ReviewDirectoryOn(cfg, as, target) ==
    IF target.on_disk = "nothing"
    THEN Outcome("NotADirectoryError", 0, FALSE, NoFileResult)
    ELSE IF target.on_disk # "directory"
    THEN Outcome("NotADirectoryError", 0, FALSE, NoFileResult)
    ELSE Outcome("", 0, FALSE, NoFileResult)

NoTarget == Target(PathOf(<<>>, "a.py"), "nothing", FALSE, FALSE, "broken")

NoOutcome == Outcome("", 0, FALSE, NoFileResult)

\* reviewer.review_file(path)
ReviewFile ==
    /\ fpc = "idle"
    /\ \E target \in Targets :
         \E out \in {ReviewFileOn(config, analyzers, target)} :
            /\ ftarget' = target
            /\ fout' = out
            /\ fpc' = IF out.error # "" THEN "file raised" ELSE "file returned"
    /\ UNCHANGED <<repeatVars, configVars, ruleVars, collectVars, config,
                   analyzers, codeVars, dirVars, scoreVars, lateVars>>

\* reviewer.review_directory(path) on a path that is not a directory
ReviewDirectory ==
    /\ fpc = "idle"
    /\ \E target \in {t \in Targets : t.on_disk # "directory"} :
         \E out \in {ReviewDirectoryOn(config, analyzers, target)} :
            /\ ftarget' = target
            /\ fout' = out
            /\ fpc' = IF out.error # "" THEN "directory raised"
                      ELSE "directory returned"
    /\ UNCHANGED <<repeatVars, configVars, ruleVars, collectVars, config,
                   analyzers, codeVars, dirVars, scoreVars, lateVars>>

-----------------------------------------------------------------------------
(* config.py: construction of a Config and its use by the severity filter *)

NoArgs == [min_severity |-> "info", output_format |-> "terminal"]

NoProbe == [severity |-> "info", kept |-> FALSE]

\* Config(min_severity=ms, output_format=fmt)
ConstructConfig ==
    /\ kpc = "idle"
    /\ \E ms \in MinSeverityInputs, fmt \in OutputFormatInputs :
         \E c \in {NewConfig(ms, fmt)} :
            /\ kargs' = [min_severity |-> ms, output_format |-> fmt]
            /\ kpc' = IF c.error # "" THEN "raised" ELSE "constructed"
            /\ config' = IF c.error # "" THEN config ELSE c.config
    /\ UNCHANGED <<kprobe, repeatVars, fileVars, ruleVars, collectVars,
                   analyzers, codeVars, dirVars, scoreVars, lateVars>>

\* a Reviewer holding the Config filters an issue of some severity
FilterProbe ==
    /\ kpc = "constructed"
    /\ \E sev \in Severity :
         kprobe' = [severity |-> sev,
                    kept |-> FilterBySeverity(config,
                                 <<Issue("custom", sev, "<string>", 1,
                                         "custom")>>) # <<>>]
    /\ kpc' = "filtered"
    /\ UNCHANGED <<kargs, repeatVars, fileVars, ruleVars, collectVars, config,
                   analyzers, codeVars, dirVars, scoreVars, lateVars>>

-----------------------------------------------------------------------------
(* rules/base.py: Rule and RuleSet *)

\* the Rule objects of the model; A and A2 are two rules with the same id
RuleObjs == {"A", "A2", "B", "C"}

\* Rule.id
RuleId(o) ==
    CASE o = "A" -> "r1"
      [] o = "A2" -> "r1"
      [] o = "B" -> "r2"
      [] OTHER -> "r3"

\* the ids handed to remove, enable, disable and get; no rule has id "r9"
RuleIds == {"r1", "r2", "r3", "r9"}

\* what the checker of a rule returns when it does not raise
CheckerIssues(o) ==
    IF o = "A"
    THEN <<Issue("custom", "high", "test.py", 1, o),
           Issue("custom", "low", "test.py", 2, o)>>
    ELSE <<Issue("custom", "medium", "test.py", 3, o)>>

\* Rule.check: [raised, issues, invoked]; failing is the set of rules whose
\* checker raises on the code
RuleCheck(o, is_enabled, failing) ==
    IF ~is_enabled[o]
    THEN [raised |-> FALSE, issues |-> <<>>, invoked |-> FALSE]
    ELSE IF o \in failing
    THEN [raised |-> TRUE, issues |-> <<>>, invoked |-> TRUE]
    ELSE [raised |-> FALSE, issues |-> CheckerIssues(o), invoked |-> TRUE]

\* self._rules[rule.id] = rule deleting the id first: a duplicate add moves
\* the id to the end
MutRulesAdd(d, o) ==
    Append(SelectSeq(d, LAMBDA kv : kv[1] # RuleId(o)), <<RuleId(o), o>>)

\* RuleSet.add: self._rules[rule.id] = rule
RulesAdd(d, o) == DictSet(d, RuleId(o), o)

\* RuleSet.remove
RulesRemove(d, rule_id) ==
    IF rule_id \in DictKeys(d)
    THEN SelectSeq(d, LAMBDA kv : kv[1] # rule_id)
    ELSE d

\* disable setting the flag of every rule of the set
MutSetEnabled(d, is_enabled, rule_id, flag) ==
    IF rule_id \in DictKeys(d)
    THEN [o \in RuleObjs |->
             IF \E i \in 1..Len(d) : d[i][2] = o THEN flag ELSE is_enabled[o]]
    ELSE is_enabled

\* RuleSet.enable / RuleSet.disable: self._rules[rule_id].enabled = flag
SetEnabled(d, is_enabled, rule_id, flag) ==
    IF rule_id \in DictKeys(d)
    THEN [is_enabled EXCEPT ![DictGet(d, rule_id, "None")] = flag]
    ELSE is_enabled

\* RuleSet.get
RulesGet(d, rule_id) == DictGet(d, rule_id, "None")

\* RuleSet.enabled_rules
EnabledRules(d, is_enabled) ==
    LET values == [i \in 1..Len(d) |-> d[i][2]]
    IN SelectSeq(values, LAMBDA o : is_enabled[o])

\* the loop of check_all without the try: the first checker that raises
\* ends the loop
RECURSIVE MutCheckLoop(_, _, _, _)
MutCheckLoop(rs, is_enabled, failing, acc) ==
    IF rs = <<>> THEN acc
    ELSE LET out == RuleCheck(rs[1], is_enabled, failing)
             invoked == IF out.invoked THEN Append(acc.invoked, rs[1])
                        ELSE acc.invoked
         IN IF out.raised
            THEN [issues |-> <<>>, invoked |-> invoked, raised |-> TRUE]
            ELSE MutCheckLoop(Tail(rs), is_enabled, failing,
                    [issues |-> acc.issues \o out.issues, invoked |-> invoked,
                     raised |-> acc.raised])

\* RuleSet.check_all, lines 148-154: the loop over self.enabled_rules
RECURSIVE CheckLoop(_, _, _, _)
CheckLoop(rs, is_enabled, failing, acc) ==
    IF rs = <<>> THEN acc
    ELSE LET out == RuleCheck(rs[1], is_enabled, failing)
             invoked == IF out.invoked THEN Append(acc.invoked, rs[1])
                        ELSE acc.invoked
         IN CheckLoop(Tail(rs), is_enabled, failing,
                [issues |-> IF out.raised THEN acc.issues
                            ELSE acc.issues \o out.issues,
                 invoked |-> invoked,
                 raised |-> acc.raised])

\* RuleSet.check_all: the issues returned, the checkers invoked, and
\* whether an exception left check_all
CheckAllOf(d, is_enabled, failing) ==
    CheckLoop(EnabledRules(d, is_enabled), is_enabled, failing,
              [issues |-> <<>>, invoked |-> <<>>, raised |-> FALSE])

\* the last call made on the RuleSet
Op(name, id, obj, failing, issues, invoked, raised) ==
    [name |-> name, id |-> id, obj |-> obj, failing |-> failing,
     issues |-> issues, invoked |-> invoked, raised |-> raised]

NoOp == Op("new", "", "None", {}, <<>>, <<>>, FALSE)

\* ruleset.add(rule)
Add ==
    /\ \E o \in RuleObjs :
         /\ ruleset' = RulesAdd(ruleset, o)
         /\ rop' = Op("add", RuleId(o), o, {}, <<>>, <<>>, FALSE)
         /\ added' = [order |-> IF \E i \in 1..Len(added.order) :
                                     added.order[i] = RuleId(o)
                                THEN added.order
                                ELSE Append(added.order, RuleId(o)),
                       last |-> [added.last EXCEPT ![RuleId(o)] = o]]
    /\ UNCHANGED <<ruleEnabled, absentOnce, collectVars, repeatVars, fileVars,
                   configVars, config, analyzers, codeVars, dirVars,
                   scoreVars, lateVars>>

\* ruleset.remove(rule_id)
Remove ==
    /\ \E id \in RuleIds :
         /\ ruleset' = RulesRemove(ruleset, id)
         /\ rop' = Op("remove", id, "None", {}, <<>>, <<>>, FALSE)
         /\ added' = [added EXCEPT
                         !.order = SelectSeq(@, LAMBDA x : x # id)]
    /\ UNCHANGED <<ruleEnabled, absentOnce, collectVars, repeatVars, fileVars,
                   configVars, config, analyzers, codeVars, dirVars,
                   scoreVars, lateVars>>

\* ruleset.enable(rule_id)
Enable ==
    /\ \E id \in RuleIds :
         /\ ruleEnabled' = SetEnabled(ruleset, ruleEnabled, id, TRUE)
         /\ rop' = Op("enable", id, "None", {}, <<>>, <<>>, FALSE)
    /\ UNCHANGED <<ruleset, added, absentOnce, collectVars, repeatVars,
                   fileVars, configVars, config, analyzers, codeVars, dirVars,
                   scoreVars, lateVars>>

\* ruleset.disable(rule_id)
Disable ==
    /\ \E id \in RuleIds :
         /\ ruleEnabled' = SetEnabled(ruleset, ruleEnabled, id, FALSE)
         /\ rop' = Op("disable", id, "None", {}, <<>>, <<>>, FALSE)
    /\ UNCHANGED <<ruleset, added, absentOnce, collectVars, repeatVars,
                   fileVars, configVars, config, analyzers, codeVars, dirVars,
                   scoreVars, lateVars>>

\* ruleset.check_all(code, file_path, tree) on a code on which the checkers
\* of some rules raise
CheckAll ==
    /\ \E failing \in SUBSET {"A", "B"} :
         \E r \in {CheckAllOf(ruleset, ruleEnabled, failing)} :
            rop' = Op("check_all", "", "None", failing, r.issues, r.invoked,
                      r.raised)
    /\ absentOnce' = absentOnce \cup
           {ruleset[i][2] : i \in {j \in 1..Len(ruleset) :
                                      ~ruleEnabled[ruleset[j][2]]}}
    /\ UNCHANGED <<ruleset, ruleEnabled, added, collectVars, repeatVars,
                   fileVars, configVars, config, analyzers, codeVars, dirVars,
                   scoreVars, lateVars>>

-----------------------------------------------------------------------------
(* reviewer.py: repeated and concurrent review_code calls *)

\* the threads calling review_code
Callers == {"t1", "t2"}

\* a caller that is not inside review_code
NoCall == [pc |-> "idle", text |-> NoText, tree |-> NoTree, as |-> <<>>,
           idx |-> 0, issues |-> <<>>, fresh |-> FALSE]

\* the texts reviewed again and again
RepeatTexts == {TextOf("smelly"), TextOf("risky"), TextOf("broken")}

\* review_code, lines 104-108: a caller enters review_code on the shared
\* Reviewer or on a fresh Reviewer(config); the text is parsed and the
\* call's own issue list is created
CallReviewCode(t) ==
    /\ calls[t].pc = "idle"
    /\ Len(log) + Cardinality({u \in Callers : calls[u].pc # "idle"})
          < MaxReviews
    /\ \E text \in RepeatTexts, fresh \in BOOLEAN :
         calls' = [calls EXCEPT ![t] =
                     [pc |-> "analyzing", text |-> text,
                      tree |-> ParseCode(text).tree,
                      as |-> IF fresh THEN SetupAnalyzers(config, <<>>)
                             ELSE analyzers,
                      idx |-> 1, issues |-> <<>>, fresh |-> fresh]]
    /\ UNCHANGED <<log, fileVars, configVars, ruleVars, collectVars, config,
                   analyzers, codeVars, dirVars, scoreVars, lateVars>>

\* the analyzer loop extending an issue list kept on the Reviewer and shared
\* by its callers
MutAnalyzerStep(t) ==
    /\ calls[t].pc = "analyzing"
    /\ calls[t].idx <= Len(calls[t].as)
    /\ \E out \in {Analyze(calls[t].as[calls[t].idx], calls[t].text,
                            "<string>")} :
         calls' = [u \in Callers |->
                     [calls[u] EXCEPT
                        !.idx = IF u = t THEN @ + 1 ELSE @,
                        !.issues = IF u = "t1" /\ ~out.raised
                                   THEN @ \o FilterBySeverity(config, out.issues)
                                   ELSE @]]
    /\ UNCHANGED <<log, fileVars, configVars, ruleVars, collectVars, config,
                   analyzers, codeVars, dirVars, scoreVars, lateVars>>

\* review_code, lines 110-120: one iteration of the loop over the analyzers
AnalyzerStep(t) ==
    /\ calls[t].pc = "analyzing"
    /\ calls[t].idx <= Len(calls[t].as)
    /\ \E out \in {Analyze(calls[t].as[calls[t].idx], calls[t].text,
                            "<string>")} :
         calls' = [calls EXCEPT
                     ![t].idx = @ + 1,
                     ![t].issues = IF out.raised THEN @
                                   ELSE @ \o FilterBySeverity(config, out.issues)]
    /\ UNCHANGED <<log, fileVars, configVars, ruleVars, collectVars, config,
                   analyzers, codeVars, dirVars, scoreVars, lateVars>>

\* review_code, lines 122-129: the metrics are computed and the FileResult
\* is returned to the caller
ReturnReview(t) ==
    /\ calls[t].pc = "analyzing"
    /\ calls[t].idx > Len(calls[t].as)
    /\ log' = Append(log,
                     [caller |-> t, fresh |-> calls[t].fresh,
                      overlap |-> \E u \in Callers \ {t} :
                                     calls[u].pc # "idle",
                      text |-> calls[t].text,
                      result |-> FileResult("<string>", calls[t].issues,
                                    CalculateMetrics(calls[t].text,
                                                     calls[t].tree), FALSE)])
    /\ calls' = [calls EXCEPT ![t] = NoCall]
    /\ UNCHANGED <<fileVars, configVars, ruleVars, collectVars, config,
                   analyzers, codeVars, dirVars, scoreVars, lateVars>>

-----------------------------------------------------------------------------
(* models.py: a FileResult and its score *)

\* an issue is appended to FileResult.issues; score and grade are read
AddIssue ==
    /\ Len(frIssues) < MaxFileIssues
    /\ \E sev \in Severity :
         /\ frIssues' = Append(frIssues,
                               Issue("custom", sev, "<string>",
                                     Len(frIssues) + 1, "custom"))
         /\ frScore' = FileResultScore(frIssues')
         /\ frGrade' = GradeOf(frScore')
    /\ UNCHANGED <<restVars, config, analyzers, codeVars, dirVars>>

-----------------------------------------------------------------------------
(* analyzers/complexity.py, reviewer.py: functions as syntax trees *)

\* an ast node: its class, the number of operands (BoolOp.values) or of
\* filters (comprehension.ifs) it holds, its name, and its child nodes in
\* the order of ast.iter_child_nodes
Node(kind, count, name, children) ==
    [kind |-> kind, count |-> count, name |-> name, children |-> children]

\* a node of a class that neither walk counts nor nests (Pass, Name, Expr)
Leaf(kind) == Node(kind, 0, "", <<>>)

Stmt(kind, children) == Node(kind, 0, "", children)

BoolOp(n) == Node("BoolOp", n, "", [i \in 1..n |-> Leaf("Name")])

\* [x for x in xs if a if b ...] with n filters
ListComp(n) ==
    Stmt("Expr", <<Stmt("ListComp",
        <<Leaf("Name"),
          Node("comprehension", n, "", [i \in 1..n |-> Leaf("Name")])>>)>>)

\* statements holding exactly one decision point of the docstring of
\* _calculate_complexity, and assert
DecisionStmts ==
    { Stmt("If", <<Leaf("Name"), Leaf("Pass")>>),
      Stmt("Expr", <<Stmt("IfExp", <<Leaf("Name"), Leaf("Name"), Leaf("Name")>>)>>),
      Stmt("For", <<Leaf("Name"), Leaf("Pass")>>),
      Stmt("While", <<Leaf("Name"), Leaf("Pass")>>),
      Stmt("Try", <<Leaf("Pass"), Stmt("ExceptHandler", <<Leaf("Pass")>>)>>),
      Stmt("With", <<Leaf("Name"), Leaf("Pass")>>),
      Stmt("Expr", <<BoolOp(2)>>),
      ListComp(1),
      Stmt("Assert", <<Leaf("Name")>>) }

\* the statements of the function bodies tried
StmtShapes ==
    DecisionStmts \cup
    { Leaf("Pass"),
      Stmt("If", <<BoolOp(3), Leaf("Pass")>>),
      Stmt("While", <<Leaf("Name"),
                      Stmt("If", <<Leaf("Name"), Leaf("Pass")>>)>>),
      ListComp(2),
      Node("FunctionDef", 0, "g",
           <<Stmt("For", <<Leaf("Name"),
                           Stmt("Assert", <<Leaf("Name")>>)>>)>>),
      Node("ClassDef", 0, "K", <<Leaf("Pass")>>) }

\* k conditionals nested inside one another around a pass statement
RECURSIVE NestedIf(_)
NestedIf(k) ==
    IF k = 0 THEN Leaf("Pass")
    ELSE Stmt("If", <<Leaf("Name"), NestedIf(k - 1)>>)

FunctionDef(name, body) == Node("FunctionDef", 0, name, body)

\* the functions analysed: def f(): with a body of statements; they take no
\* parameter and are shorter than max_function_lines
Functions ==
    { FunctionDef("f", body) : body \in SeqsUpTo(StmtShapes, MaxStmts) }
        \cup { FunctionDef("f", <<NestedIf(k)>>) : k \in 1..MaxNest }

\* ast.walk: the nodes below and including the nodes of the queue,
\* breadth first
RECURSIVE Walk(_)
Walk(todo) ==
    IF todo = <<>> THEN <<>>
    ELSE <<todo[1]>> \o Walk(Tail(todo) \o todo[1].children)

\* what one node adds in ComplexityAnalyzer._calculate_complexity
ComplexityStep(child) ==
    IF child.kind \in {"If", "IfExp"} THEN 1
    ELSE IF child.kind \in {"For", "AsyncFor"} THEN 1
    ELSE IF child.kind = "While" THEN 1
    ELSE IF child.kind = "ExceptHandler" THEN 1
    ELSE IF child.kind \in {"With", "AsyncWith"} THEN 1
    ELSE IF child.kind = "BoolOp" THEN child.count - 1
    ELSE IF child.kind = "comprehension" THEN child.count
    ELSE IF child.kind = "Assert" THEN 1
    ELSE 0

\* ComplexityAnalyzer._calculate_complexity
CalculateComplexity(node) ==
    LET nodes == Walk(<<node>>)
    IN 1 + SumSeq([i \in 1..Len(nodes) |-> ComplexityStep(nodes[i])])

\* what one node adds in Reviewer._calculate_function_complexity
FunctionComplexityStep(child) ==
    IF child.kind \in {"If", "IfExp"} THEN 1
    ELSE IF child.kind \in {"For", "AsyncFor", "While"} THEN 1
    ELSE IF child.kind = "ExceptHandler" THEN 1
    ELSE IF child.kind \in {"With", "AsyncWith"} THEN 1
    ELSE IF child.kind = "BoolOp" THEN child.count - 1
    ELSE IF child.kind = "comprehension" THEN child.count
    ELSE 0

\* Reviewer._calculate_function_complexity
CalculateFunctionComplexity(node) ==
    LET nodes == Walk(<<node>>)
    IN 1 + SumSeq([i \in 1..Len(nodes) |-> FunctionComplexityStep(nodes[i])])

nesting_nodes ==
    {"If", "For", "AsyncFor", "While", "With", "AsyncWith", "Try",
     "FunctionDef", "AsyncFunctionDef", "ClassDef"}

\* get_depth counting the function node itself as a level
RECURSIVE MutGetDepth(_, _)
MutGetDepth(node, current_depth) ==
    MaxSeq(<<current_depth + 1>> \o
           [i \in 1..Len(node.children) |->
              MutGetDepth(node.children[i],
                          IF node.children[i].kind \in nesting_nodes
                          THEN current_depth + 1 ELSE current_depth)])

\* get_depth of ComplexityAnalyzer._calculate_nesting_depth
RECURSIVE GetDepth(_, _)
GetDepth(node, current_depth) ==
    MaxSeq(<<current_depth>> \o
           [i \in 1..Len(node.children) |->
              GetDepth(node.children[i],
                       IF node.children[i].kind \in nesting_nodes
                       THEN current_depth + 1 ELSE current_depth)])

\* ComplexityAnalyzer._calculate_nesting_depth
CalculateNestingDepth(node) == GetDepth(node, 0)

\* the thresholds of the Config the analyzer reads
Limits(max_complexity, max_nesting_depth) ==
    [max_complexity |-> max_complexity,
     max_nesting_depth |-> max_nesting_depth]

\* an Issue of the complexity analyzer: the function it is about, the value
\* measured (metadata and message) and the threshold (message)
FunctionIssue(type, severity, function, value, threshold) ==
    [type |-> type, severity |-> severity, function |-> function,
     value |-> value, threshold |-> threshold]

\* _analyze_function reporting a complexity equal to the threshold
MutAnalyzeFunction(cfg, node) ==
    LET complexity == CalculateComplexity(node)
        nesting == CalculateNestingDepth(node)
    IN (IF complexity >= cfg.max_complexity
        THEN <<FunctionIssue("high_complexity",
                             IF complexity <= 15 THEN "medium" ELSE "high",
                             node.name, complexity, cfg.max_complexity)>>
        ELSE <<>>)
       \o (IF nesting > cfg.max_nesting_depth
           THEN <<FunctionIssue("deep_nesting", "medium", node.name, nesting,
                                cfg.max_nesting_depth)>>
           ELSE <<>>)

\* ComplexityAnalyzer._analyze_function
AnalyzeFunction(cfg, node) ==
    LET complexity == CalculateComplexity(node)
        nesting == CalculateNestingDepth(node)
    IN (IF complexity > cfg.max_complexity
        THEN <<FunctionIssue("high_complexity",
                             IF complexity <= 15 THEN "medium" ELSE "high",
                             node.name, complexity, cfg.max_complexity)>>
        ELSE <<>>)
       \o (IF nesting > cfg.max_nesting_depth
           THEN <<FunctionIssue("deep_nesting", "medium", node.name, nesting,
                                cfg.max_nesting_depth)>>
           ELSE <<>>)

\* ComplexityAnalyzer.analyze on a parsed module: every function of the walk;
\* the classes of the model have fewer than 20 methods
AnalyzeTree(cfg, tree) ==
    LET nodes == Walk(<<tree>>)
    IN Concat([i \in 1..Len(nodes) |->
                 IF nodes[i].kind \in {"FunctionDef", "AsyncFunctionDef"}
                 THEN AnalyzeFunction(cfg, nodes[i])
                 ELSE <<>>])

\* Reviewer._calculate_metrics, lines 349-366: the complexity of every
\* function of the walk
ComplexityValues(tree) ==
    LET nodes == Walk(<<tree>>)
        fns == SelectSeq(nodes, LAMBDA n :
                  n.kind \in {"FunctionDef", "AsyncFunctionDef"})
    IN [i \in 1..Len(fns) |-> CalculateFunctionComplexity(fns[i])]

Module(body) == Node("Module", 0, "", body)

NoOut == [issues |-> <<>>, complexity_values |-> <<>>, max_complexity |-> 0]

NoPrev == [analysed |-> FALSE, func |-> FunctionDef("f", <<>>), out |-> NoOut]

\* review_code on the module holding the function, with the complexity
\* analyzer active and min_severity at info
ReviewFunction ==
    /\ apc = "idle"
    /\ \E tree \in {Module(<<afunc>>)} :
         \E values \in {ComplexityValues(tree)} :
            aout' = [issues |-> AnalyzeTree(limits, tree),
                     complexity_values |-> values,
                     max_complexity |-> MaxSeq(values)]
    /\ apc' = "analysed"
    /\ UNCHANGED <<afunc, limits, aprev, otherThanAst>>

\* the source is edited: one statement holding one decision point is added
\* at the end of the function reviewed
AddDecisionPoint ==
    /\ apc = "analysed"
    /\ Len(afunc.children) <= MaxStmts
    /\ \E d \in DecisionStmts :
         afunc' = [afunc EXCEPT !.children = Append(@, d)]
    /\ aprev' = [analysed |-> TRUE, func |-> afunc, out |-> aout]
    /\ aout' = NoOut
    /\ apc' = "idle"
    /\ UNCHANGED <<limits, otherThanAst>>

-----------------------------------------------------------------------------
(* analyzers/security.py: hardcoded secrets *)

Quotes == {"\"", "'"}

\* the characters of the string literals tried: a letter, the letter of the
\* placeholder xxx, and the quote character that does not delimit the literal
SecretChars == {"a", "x", "'"}

\* the stripped line  password = "<literal>"
SecretLine(literal) == <<"password", " ", "=", " ", "\"">> \o literal \o <<"\"">>

\* s[from..to], empty when from > to
Slice(s, from, to) == SubSeq(s, from, to)

\* needle in haystack
Contains(haystack, needle) ==
    \E i \in 0..(Len(haystack) - Len(needle)) :
        Slice(haystack, i + 1, i + Len(needle)) = needle

\* the length of the longest run of characters other than quotes from
\* position i on
RECURSIVE RunLength(_, _)
RunLength(line, i) ==
    IF i > Len(line) \/ line[i] \in Quotes THEN 0
    ELSE 1 + RunLength(line, i + 1)

\* a pattern  password\s*=\s*["'][^"']+["']  of SECRET_PATTERNS is found in
\* the line by re.search
SecretPatternFound(line) ==
    \E i \in 1..Len(line) :
        /\ line[i] = "password"
        /\ \E j \in (i + 1)..Len(line) :
              /\ \A k \in (i + 1)..(j - 1) : line[k] = " "
              /\ line[j] = "="
              /\ \E q \in (j + 1)..Len(line) :
                    /\ \A k \in (j + 1)..(q - 1) : line[k] = " "
                    /\ line[q] \in Quotes
                    /\ RunLength(line, q + 1) >= 1
                    /\ q + 1 + RunLength(line, q + 1) <= Len(line)

\* the placeholders of line 233 the characters of the model can spell
Placeholders == {<<"x", "x", "x">>}

\* re.sub of _mask_secret from position i on: a quote, four characters that
\* are no quotes, any number of them, two more, and the same quote again are
\* replaced by the quote, the four, ****, the two and the quote
RECURSIVE MaskFrom(_, _)
MaskFrom(line, i) ==
    IF i > Len(line) THEN <<>>
    ELSE LET run == RunLength(line, i + 1)
         IN IF /\ line[i] \in Quotes
               /\ run >= 6
               /\ i + 1 + run <= Len(line)
               /\ line[i + 1 + run] = line[i]
            THEN <<line[i]>> \o Slice(line, i + 1, i + 4)
                    \o <<"*", "*", "*", "*">>
                    \o Slice(line, i + run - 1, i + run) \o <<line[i]>>
                    \o MaskFrom(line, i + run + 2)
            ELSE <<line[i]>> \o MaskFrom(line, i + 1)

\* SecurityAnalyzer._mask_secret
MaskSecret(line) == MaskFrom(line, 1)

\* SecurityAnalyzer._check_hardcoded_secrets on a text of one line that is
\* no comment: the code of the issues
CheckHardcodedSecretsOf(line) ==
    IF /\ SecretPatternFound(line)
       /\ \A p \in Placeholders : ~Contains(line, p)
    THEN <<[type |-> "hardcoded_secret", severity |-> "high",
            code |-> MaskSecret(line)]>>
    ELSE <<>>

NoSecret == <<"a">>

\* the security analyzer checks the line
CheckHardcodedSecrets ==
    /\ mpc = "idle"
    /\ missues' = CheckHardcodedSecretsOf(mline)
    /\ mpc' = "checked"
    /\ UNCHANGED <<mline, msecret, otherThanMask>>

\* the source is edited: the literal gets one more character
LongerSecret ==
    /\ mpc = "checked"
    /\ Len(msecret) < MaxSecretLen
    /\ \E c \in SecretChars :
         /\ msecret' = Append(msecret, c)
         /\ mline' = SecretLine(msecret')
    /\ missues' = <<>>
    /\ mpc' = "idle"
    /\ UNCHANGED otherThanMask

-----------------------------------------------------------------------------
(* reviewer.py, analyzers: the parses of one review_code call *)

\* review_code, lines 105-108: the issues list is created and the text is
\* parsed by Reviewer._parse_code, which lets every exception other than
\* SyntaxError out
ParseOnce ==
    /\ ppc = "idle"
    /\ \E text \in CodeTexts(analyzers) :
         \E p \in {ParseCode(text)} :
            /\ ptext' = text
            /\ ptree' = p.tree
            /\ ppc' = IF p.raised THEN "raised" ELSE "analyzing"
    /\ pparses' = 1
    /\ pidx' = 1
    /\ phanded' = <<>>
    /\ pissues' = <<>>
    /\ UNCHANGED otherThanParse

\* review_code, lines 110-120: analyzer.analyze(code, file_path, tree); the
\* built-in analyzers call parse_code(code) when the tree they get is None
AnalyzeWithTree ==
    /\ ppc = "analyzing"
    /\ pidx <= Len(analyzers)
    /\ phanded' = Append(phanded, ptree)
    /\ pparses' = IF ptree.present THEN pparses ELSE pparses + 1
    /\ \E out \in {Analyze(analyzers[pidx], ptext, "<string>")} :
         pissues' = IF out.raised THEN pissues
                    ELSE pissues \o FilterBySeverity(config, out.issues)
    /\ pidx' = pidx + 1
    /\ UNCHANGED <<ppc, ptext, ptree, otherThanParse>>

\* review_code, lines 122-129
ReturnResult ==
    /\ ppc = "analyzing"
    /\ pidx > Len(analyzers)
    /\ ppc' = "returned"
    /\ UNCHANGED <<ptext, ptree, pidx, pparses, phanded, pissues,
                   otherThanParse>>

-----------------------------------------------------------------------------
(* reviewer.py: Reviewer(config, custom_analyzers) *)

\* config.analyzers: built-in names in several orders, repeated, with a name
\* that is no built-in
AnalyzerNameLists ==
    {<<>>, <<"security">>, <<"bogus">>, <<"smells", "complexity">>,
     <<"security", "security">>,
     <<"smells", "bogus", "complexity", "security">>, DefaultAnalyzers}

\* the custom_analyzers argument
CustomLists ==
    {<<>>, <<"custom1">>, <<"object">>, <<"custom2", "custom1">>,
     <<"object", "custom2", "object", "custom1">>}

\* what an analyzer does on a text: reports nothing, reports one issue of
\* medium or of high severity, or raises
Behaviours == {"nothing", "medium", "high", "raises"}

\* the texts on which every active analyzer behaves in one of the ways
SetupTexts(as) ==
    { Text(<<"code">>, "tree", <<1>>, 0,
           LET reporting == SelectSeq(as, LAMBDA a :
                               does[a] \in {"medium", "high"})
           IN [i \in 1..Len(reporting) |->
                 [analyzer |-> reporting[i], severity |-> does[reporting[i]]]],
           {a \in SeqRange(as) : does[a] = "raises"}) :
        does \in [SeqRange(as) -> Behaviours] }

\* Reviewer(config=Config(analyzers=..., min_severity=...),
\*          custom_analyzers=...)
NewReviewerWith ==
    /\ spc = "idle"
    /\ \E names \in AnalyzerNameLists, customs \in CustomLists,
          ms \in {"info", "high"} :
         /\ config' = [Config(ms) EXCEPT !.analyzers = names]
         /\ custom_analyzers' = customs
         /\ analyzers' = SetupAnalyzers(config', customs)
    /\ spc' = "constructed"
    /\ UNCHANGED <<codeVars, dirVars, scoreVars, repeatVars, fileVars,
                   configVars, ruleVars, collectVars, astVars, maskVars,
                   parseVars, builderVars>>

\* review_code on the Reviewer constructed
ReviewAfterSetup ==
    /\ spc = "constructed"
    /\ ReviewCodeFrom(SetupTexts(analyzers))

-----------------------------------------------------------------------------
(* rules/base.py: RuleBuilder *)

\* RuleBuilder.__init__: the checker is None, the severity LOW; _tags and
\* _config refer to a list and a dict created here
NewBuilder(rule_id) ==
    [id |-> rule_id, severity |-> "low", checker |-> "None",
     tags |-> "list0", config |-> "dict0"]

NewHeap == [list0 |-> <<>>, dict0 |-> <<>>]

NoBuilderCall == [name |-> "new", rule |-> 0, issues |-> <<>>,
                  raised |-> FALSE]

BuilderSeverities == {"low", "high"}

\* Rule(...) as build() makes it: severity is the value of the builder's
\* attribute, checker the closure, tags and config the builder's own list
\* and dict; at_build records what the list and the dict held when build()
\* returned
BuiltRule(b, h) ==
    [id |-> b.id, severity |-> b.severity, checker |-> b.checker,
     tags |-> b.tags, config |-> b.config,
     at_build |-> [tags |-> h[b.tags], config |-> h[b.config]]]

\* pattern_checker and ast_checker_func: one Issue per matching line or
\* node, with type, rule and severity read from the builder when called
CheckerOf(b, matches) ==
    [i \in 1..matches |->
        [type |-> b.id, rule |-> b.id, severity |-> b.severity, line |-> i]]

\* builder.severity(sev)
BuilderSeverity ==
    /\ \E sev \in BuilderSeverities :
         /\ sev # builder.severity
         /\ builder' = [builder EXCEPT !.severity = sev]
    /\ bcheck' = [NoBuilderCall EXCEPT !.name = "severity"]
    /\ UNCHANGED <<heap, built, otherThanBuilder>>

\* builder.tags("a"): self._tags.extend(tags)
BuilderTags ==
    /\ Len(heap[builder.tags]) < MaxTags
    /\ heap' = [heap EXCEPT ![builder.tags] = Append(@, "a")]
    /\ bcheck' = [NoBuilderCall EXCEPT !.name = "tags"]
    /\ UNCHANGED <<builder, built, otherThanBuilder>>

\* builder.config(k=1): self._config.update(kwargs)
BuilderConfig ==
    /\ DictGet(heap[builder.config], "k", 0) # 1
    /\ heap' = [heap EXCEPT ![builder.config] = DictSet(@, "k", 1)]
    /\ bcheck' = [NoBuilderCall EXCEPT !.name = "config"]
    /\ UNCHANGED <<builder, built, otherThanBuilder>>

\* builder.pattern(...) and builder.ast_checker(...)
BuilderChecker ==
    /\ \E kind \in {"pattern", "ast"} :
         /\ kind # builder.checker
         /\ builder' = [builder EXCEPT !.checker = kind]
    /\ bcheck' = [NoBuilderCall EXCEPT !.name = "checker"]
    /\ UNCHANGED <<heap, built, otherThanBuilder>>

\* builder.build()
Build ==
    /\ Len(built) < MaxBuilt
    /\ IF builder.checker = "None"
       THEN /\ bcheck' = [NoBuilderCall EXCEPT !.name = "build",
                                               !.raised = TRUE]
            /\ built' = built
       ELSE /\ built' = Append(built, BuiltRule(builder, heap))
            /\ bcheck' = [NoBuilderCall EXCEPT !.name = "build",
                                               !.rule = Len(built')]
    /\ UNCHANGED <<builder, heap, otherThanBuilder>>

\* rule.check(code, file_path) on a rule built, enabled, with code in which
\* the pattern or the node condition matches some number of times
RuleCheckBuilt ==
    /\ \E r \in 1..Len(built), matches \in 0..MaxMatches :
         bcheck' = [name |-> "check", rule |-> r,
                    issues |-> CheckerOf(builder, matches), raised |-> FALSE]
    /\ UNCHANGED <<builder, heap, built, otherThanBuilder>>

-----------------------------------------------------------------------------
(* Specifications *)

IdleCode ==
    /\ cpc = "idle" /\ ctext = NoText /\ cresult = NoFileResult
    /\ ctrace = NoTrace

IdleDir ==
    /\ dpc = "idle" /\ pending = <<>> /\ running = {} /\ completed = {}
    /\ yielded = {} /\ results = <<>> /\ review = NoReview
    /\ reviewCount = [p \in DOMAIN fs |-> 0]

IdleRepeat == calls = [t \in Callers |-> NoCall] /\ log = <<>>

IdleFile == fpc = "idle" /\ ftarget = NoTarget /\ fout = NoOutcome

IdleConfig == kpc = "idle" /\ kargs = NoArgs /\ kprobe = NoProbe

\* RuleSet(): no rule; every Rule object is built with enabled=True
NewRuleSet ==
    /\ ruleset = <<>>
    /\ ruleEnabled = [o \in RuleObjs |-> TRUE]
    /\ rop = NoOp
    /\ added = [order |-> <<>>, last |-> [id \in RuleIds |-> "None"]]
    /\ absentOnce = {}

\* review_directory was not called on the directory
NotCollected == tpc = "idle" /\ tfiles = <<>> /\ treviewed = <<>>

IdleCollect == tdisk = {} /\ trecursive = TRUE /\ NotCollected

IdleAst ==
    /\ apc = "idle" /\ afunc = FunctionDef("f", <<>>)
    /\ limits = Limits(10, 4) /\ aout = NoOut /\ aprev = NoPrev

IdleMask ==
    /\ mpc = "idle" /\ msecret = NoSecret /\ mline = SecretLine(msecret)
    /\ missues = <<>>

IdleParse ==
    /\ ppc = "idle" /\ ptext = NoText /\ ptree = NoTree /\ pidx = 1
    /\ pparses = 0 /\ phanded = <<>> /\ pissues = <<>>

IdleSetup == spc = "idle" /\ custom_analyzers = <<>>

IdleBuilder ==
    /\ builder = NewBuilder("r1") /\ heap = NewHeap /\ built = <<>>
    /\ bcheck = NoBuilderCall

IdleLate == IdleAst /\ IdleMask /\ IdleParse /\ IdleSetup /\ IdleBuilder

IdleRest ==
    /\ IdleRepeat /\ IdleFile /\ IdleConfig /\ NewRuleSet /\ IdleCollect
    /\ IdleLate

NewFileResult ==
    /\ frIssues = <<>>
    /\ frScore = FileResultScore(<<>>)
    /\ frGrade = GradeOf(frScore)

\* a Reviewer built from a Config that __post_init__ accepted
NewReviewer(min_severities) ==
    /\ \E ms \in min_severities :
         /\ ConfigAccepts(ms)
         /\ config = Config(ms)
    /\ analyzers = SetupAnalyzers(config, <<>>)

EmptyDisk == [p \in {} |-> "broken"]

\* single-file review of any text under any accepted configuration
InitCode ==
    /\ NewReviewer(MinSeverityInputs)
    /\ IdleCode
    /\ fs = EmptyDisk /\ parallel = FALSE /\ max_workers = 1
    /\ IdleDir
    /\ NewFileResult
    /\ IdleRest

NextCode == ReviewCode

SpecCode == InitCode /\ [][NextCode]_vars

\* directory review of up to NFiles files, parallel or not
InitDir ==
    /\ NewReviewer(DirMinSeverities)
    /\ IdleCode
    /\ \E n \in 0..NFiles : fs \in [{Paths[i] : i \in 1..n} -> FileKinds]
    /\ parallel \in BOOLEAN
    /\ max_workers \in 1..MaxWorkers
    /\ IdleDir
    /\ NewFileResult
    /\ IdleRest

NextDir ==
    \/ ReviewDirectorySequential
    \/ ReviewDirectoryParallel
    \/ WorkerStart
    \/ WorkerFinish
    \/ AsCompleted
    \/ ReviewDirectoryReturn

SpecDir == InitDir /\ [][NextDir]_vars

\* the file kinds of the parallel runs
PoolKinds == {"unreadable", "smelly", "risky"}

\* review_directory(parallel=True) on up to NFiles files
InitPool ==
    /\ NewReviewer({"info"})
    /\ IdleCode
    /\ \E n \in 0..NFiles : fs \in [{Paths[i] : i \in 1..n} -> PoolKinds]
    /\ parallel = TRUE
    /\ max_workers \in 1..MaxWorkers
    /\ IdleDir
    /\ NewFileResult
    /\ IdleRest

\* while a step of the run can be taken one is taken: the caller runs
\* review_directory, a worker thread takes or finishes an item, as_completed
\* yields a done future
PoolFairness == WF_vars(NextDir)

SpecPool == InitPool /\ [][NextDir]_vars /\ PoolFairness

\* a FileResult growing one issue at a time
InitScore ==
    /\ NewReviewer({"info"})
    /\ IdleCode
    /\ fs = EmptyDisk /\ parallel = FALSE /\ max_workers = 1
    /\ IdleDir
    /\ NewFileResult
    /\ IdleRest

NextScore == AddIssue

SpecScore == InitScore /\ [][NextScore]_vars

\* up to MaxReviews review_code calls by two threads, on one Reviewer or on
\* fresh ones
InitRepeat ==
    /\ NewReviewer(DirMinSeverities)
    /\ IdleCode
    /\ fs = EmptyDisk /\ parallel = FALSE /\ max_workers = 1
    /\ IdleDir
    /\ NewFileResult
    /\ IdleRest

NextRepeat ==
    \E t \in Callers :
        \/ CallReviewCode(t)
        \/ AnalyzerStep(t)
        \/ ReturnReview(t)

SpecRepeat == InitRepeat /\ [][NextRepeat]_vars

\* one review_file or review_directory call on one target, under any
\* accepted configuration
InitFile ==
    /\ NewReviewer(MinSeverityInputs)
    /\ IdleCode
    /\ fs = EmptyDisk /\ parallel = FALSE /\ max_workers = 1
    /\ IdleDir
    /\ NewFileResult
    /\ IdleRest

NextFile == ReviewFile \/ ReviewDirectory

SpecFile == InitFile /\ [][NextFile]_vars

\* a Config is constructed from any arguments and then used to filter
InitConfig ==
    /\ NewReviewer({"info"})
    /\ IdleCode
    /\ fs = EmptyDisk /\ parallel = FALSE /\ max_workers = 1
    /\ IdleDir
    /\ NewFileResult
    /\ IdleRest

NextConfig == ConstructConfig \/ FilterProbe

SpecConfig == InitConfig /\ [][NextConfig]_vars

\* review_directory enumerating any directory under any ignore and include
\* settings
InitCollect ==
    /\ \E ip \in IgnorePathSettings, ifs \in IgnoreFileSettings,
          inc \in IncludeSettings :
         config = [Config("info") EXCEPT !.ignore_paths = ip,
                                         !.ignore_files = ifs,
                                         !.include_patterns = inc]
    /\ analyzers = SetupAnalyzers(config, <<>>)
    /\ IdleCode
    /\ fs = EmptyDisk /\ parallel = FALSE /\ max_workers = 1
    /\ IdleDir
    /\ NewFileResult
    /\ IdleRepeat /\ IdleFile /\ IdleConfig /\ NewRuleSet /\ IdleLate
    /\ tdisk \in SUBSET DiskPaths
    /\ trecursive \in BOOLEAN
    /\ NotCollected

NextCollect == Collect \/ Process

SpecCollect == InitCollect /\ [][NextCollect]_vars

\* any sequence of calls on one RuleSet
InitRules ==
    /\ NewReviewer({"info"})
    /\ IdleCode
    /\ fs = EmptyDisk /\ parallel = FALSE /\ max_workers = 1
    /\ IdleDir
    /\ NewFileResult
    /\ IdleRest

NextRules == Add \/ Remove \/ Enable \/ Disable \/ CheckAll

SpecRules == InitRules /\ [][NextRules]_vars

\* functions reviewed under every pair of thresholds
InitAst ==
    /\ NewReviewer({"info"}) /\ IdleCode
    /\ fs = EmptyDisk /\ parallel = FALSE /\ max_workers = 1 /\ IdleDir
    /\ NewFileResult
    /\ IdleRepeat /\ IdleFile /\ IdleConfig /\ NewRuleSet /\ IdleCollect
    /\ apc = "idle" /\ afunc \in Functions
    /\ limits \in {Limits(c, n) : c \in 1..MaxLimit, n \in 1..MaxLimit}
    /\ aout = NoOut /\ aprev = NoPrev
    /\ IdleMask /\ IdleParse /\ IdleSetup /\ IdleBuilder

NextAst == ReviewFunction \/ AddDecisionPoint

SpecAst == InitAst /\ [][NextAst]_vars

InitBase ==
    /\ NewReviewer({"info"}) /\ IdleCode
    /\ fs = EmptyDisk /\ parallel = FALSE /\ max_workers = 1 /\ IdleDir
    /\ NewFileResult
    /\ IdleRepeat /\ IdleFile /\ IdleConfig /\ NewRuleSet /\ IdleCollect

\* lines assigning a string literal of one to three characters to password
InitMask ==
    /\ InitBase /\ IdleAst
    /\ mpc = "idle"
    /\ msecret \in SeqsUpTo(SecretChars, 3) \ {<<>>}
    /\ mline = SecretLine(msecret)
    /\ missues = <<>>
    /\ IdleParse /\ IdleSetup /\ IdleBuilder

NextMask == CheckHardcodedSecrets \/ LongerSecret

SpecMask == InitMask /\ [][NextMask]_vars

\* the configurations whose analyzers list names some of the built-ins
AnalyzerChoices ==
    {<<>>, <<"security">>, <<"complexity", "smells">>, DefaultAnalyzers}

\* one review_code call on a Reviewer with any of the analyzer lists
InitParse ==
    /\ \E names \in AnalyzerChoices :
         config = [Config("info") EXCEPT !.analyzers = names]
    /\ analyzers = SetupAnalyzers(config, <<>>)
    /\ IdleCode
    /\ fs = EmptyDisk /\ parallel = FALSE /\ max_workers = 1 /\ IdleDir
    /\ NewFileResult
    /\ IdleRepeat /\ IdleFile /\ IdleConfig /\ NewRuleSet /\ IdleCollect
    /\ IdleAst /\ IdleMask /\ IdleParse /\ IdleSetup /\ IdleBuilder

NextParse == ParseOnce \/ AnalyzeWithTree \/ ReturnResult

SpecParse == InitParse /\ [][NextParse]_vars

\* no Reviewer constructed yet
InitSetup == InitBase /\ IdleLate

NextSetup == NewReviewerWith \/ ReviewAfterSetup

SpecSetup == InitSetup /\ [][NextSetup]_vars

\* RuleBuilder("r1")
InitBuilder == InitBase /\ IdleLate

NextBuilder ==
    \/ BuilderSeverity \/ BuilderTags \/ BuilderConfig \/ BuilderChecker
    \/ Build \/ RuleCheckBuilt

SpecBuilder == InitBuilder /\ [][NextBuilder]_vars

Init ==
    \/ InitCode \/ InitDir \/ InitScore \/ InitRepeat \/ InitFile
    \/ InitConfig \/ InitRules \/ InitCollect

Next ==
    \/ NextCode \/ NextDir \/ NextScore \/ NextRepeat \/ NextFile
    \/ NextConfig \/ NextRules \/ NextCollect

Spec == Init /\ [][Next]_vars

-----------------------------------------------------------------------------
(* Properties of directory review (SpecDir) *)

\* the ReviewResult of the run with parallel=False on the same files
SequentialReview ==
    LET files == CollectFiles(fs)
    IN IF files = <<>> THEN EmptyReview
       ELSE AggregateResults(ProcessSequential(config, analyzers, fs, files))

FileRaises(p) == ReviewFileOf(config, analyzers, fs, p).raised

\* the paths of the FileResults of a list, in order
FilesOf(rs) == [i \in 1..Len(rs) |-> rs[i].file]

SameAggregate(r1, r2) ==
    /\ r1.total_issues = r2.total_issues
    /\ DictEq(r1.issues_by_severity, r2.issues_by_severity)
    /\ DictEq(r1.issues_by_type, r2.issues_by_type)
    /\ DictEq(r1.issues_by_file, r2.issues_by_file)

\* C1: a finished parallel run has the same total_issues, issues_by_severity,
\* issues_by_type and issues_by_file (as dictionaries) as the sequential run
\* on the same files and configuration, for every max_workers and every
\* completion order.
C1_ConcurrencyInvariance ==
    (dpc = "done" /\ parallel) => SameAggregate(review, SequentialReview)

\* a parallel run over several files, one of them failing, whose futures
\* completed in an order other than the submission order
C1_Witness ==
    /\ dpc = "done" /\ parallel /\ Cardinality(DOMAIN fs) > 1
    /\ \E p \in DOMAIN fs : FileRaises(p)
    /\ review.total_issues > 0
    /\ FilesOf(results) # FilesOf(SequentialReview.files)

\* C2: when the review of a collected file raises, review_directory still
\* returns, its counts and its file index are those of the files whose
\* review does not raise, and review_file ran exactly once on every file;
\* on the sequential and on the parallel path.
C2_FailureContainment ==
    dpc = "done" =>
        LET rest == SelectSeq(CollectFiles(fs), LAMBDA p : ~FileRaises(p))
            expected ==
                AggregateResults([i \in 1..Len(rest) |->
                    ReviewFileOf(config, analyzers, fs, rest[i]).result])
        IN /\ SameAggregate(review, expected)
           /\ \A p \in DOMAIN fs : reviewCount[p] = 1

\* a finished sequential run in which a file failed before a file with issues
C2_Witness ==
    /\ dpc = "done" /\ ~parallel
    /\ \E p, q \in DOMAIN fs :
         /\ PathIndex(p) < PathIndex(q)
         /\ FileRaises(p) /\ ~FileRaises(q)
         /\ DictGet(review.issues_by_file, q, <<>>) # <<>>

\* C6: the files list and the key order of issues_by_file of a parallel run
\* are those of the sequential run on the same files.
C6_OrderInvariance ==
    (dpc = "done" /\ parallel) =>
        /\ FilesOf(review.files) = FilesOf(SequentialReview.files)
        /\ DictKeyOrder(review.issues_by_file)
             = DictKeyOrder(SequentialReview.issues_by_file)

\* C7: every file whose review failed has a FileResult in ReviewResult.files
\* with skipped set or error filled.
C7_FailedFileRecorded ==
    dpc = "done" =>
        \A p \in DOMAIN fs :
            FileRaises(p) =>
                \E i \in 1..Len(review.files) :
                    /\ review.files[i].file = p
                    /\ (review.files[i].skipped \/ review.files[i].error # "")

\* C8: no ReviewResult exists before review_directory returns; when it
\* returns every file was submitted to review_file once and no review is
\* pending, running or unconsumed; afterwards nothing changes the result.
C8_NeverPartiallyVisible ==
    /\ [](dpc # "done" => review = NoReview)
    /\ [](dpc = "done" =>
            /\ pending = <<>> /\ running = {} /\ completed = {}
            /\ \A p \in DOMAIN fs : reviewCount[p] = 1
            /\ (parallel /\ Cardinality(DOMAIN fs) > 1) => yielded = DOMAIN fs)
    /\ [][dpc = "done" => (dpc' = "done" /\ review' = review)]_vars

\* a returned parallel run over several files with a failed file
C8_Witness ==
    /\ dpc = "done" /\ parallel /\ Cardinality(DOMAIN fs) > 1
    /\ \E p \in DOMAIN fs : FileRaises(p)
    /\ review # NoReview

\* C9: in a returned ReviewResult, total_issues equals the sum of
\* issues_by_severity, the sum of issues_by_type, the number of issues
\* indexed in issues_by_file and the number of issues of the non-skipped
\* FileResults; the aggregate Metrics sum the non-skipped files only.
C9_AggregationConsistency ==
    dpc = "done" =>
        LET kept == SelectSeq(review.files, LAMBDA r : ~r.skipped)
            nIssues == SumSeq([i \in 1..Len(kept) |-> Len(kept[i].issues)])
        IN /\ review.total_issues = DictValueSum(review.issues_by_severity)
           /\ review.total_issues = DictValueSum(review.issues_by_type)
           /\ review.total_issues
                = SumSeq([i \in 1..Len(review.issues_by_file) |->
                             Len(review.issues_by_file[i][2])])
           /\ review.total_issues = nIssues
           /\ review.metrics.total_lines
                = SumSeq([i \in 1..Len(kept) |-> kept[i].metrics.total_lines])
           /\ review.metrics.lines_of_code
                = SumSeq([i \in 1..Len(kept) |-> kept[i].metrics.lines_of_code])
           /\ review.metrics.functions
                = SumSeq([i \in 1..Len(kept) |-> kept[i].metrics.functions])
           /\ review.metrics.classes
                = SumSeq([i \in 1..Len(kept) |-> kept[i].metrics.classes])

\* a ReviewResult over several files in which a severity occurs twice
C9_Witness ==
    /\ dpc = "done"
    /\ Len(review.files) > 1
    /\ \E i \in 1..Len(review.issues_by_severity) :
         review.issues_by_severity[i][2] >= 2
    /\ Len(review.issues_by_type) >= 2

\* the issues of the non-skipped FileResults of a ReviewResult, concatenated
IssuesOfFiles(rr) ==
    LET kept == SelectSeq(rr.files, LAMBDA r : ~r.skipped)
    IN Concat([i \in 1..Len(kept) |-> kept[i].issues])

\* C12: the score of a returned ReviewResult is the FileResult score of the
\* concatenated issues of its non-skipped files (100 minus the summed
\* weights, clamped to [0, 100]), and its grade is the FileResult grade of
\* that score.
C12_AggregateScore ==
    dpc = "done" =>
        /\ ReviewResultScore(review.issues_by_severity)
             = FileResultScore(IssuesOfFiles(review))
        /\ ReviewResultGrade(ReviewResultScore(review.issues_by_severity))
             = GradeOf(FileResultScore(IssuesOfFiles(review)))

\* a ReviewResult over several files whose summed weights exceed 100
C12_Witness ==
    /\ dpc = "done"
    /\ Len(review.files) > 1
    /\ ScoreLoop(IssuesOfFiles(review), 100) < 0
    /\ ReviewResultScore(review.issues_by_severity) = 0

-----------------------------------------------------------------------------
(* Properties of single-file review (SpecCode) *)

\* C3: when analyzers raise in a review_code call that returns, every active
\* analyzer was run, in order; the failed ones contribute no issue; the
\* issues are those of the other analyzers that pass the filter, in analyzer
\* order; the Metrics are those of the same text with no analyzer failing.
C3_CheckerFailureContainment ==
    cpc = "returned" =>
        /\ ctrace.ran = analyzers
        /\ ctrace.failed
             = {a \in SeqRange(analyzers) : Analyze(a, ctext, "<string>").raised}
        /\ \A i \in 1..Len(cresult.issues) :
             cresult.issues[i].rule \notin ctrace.failed
        /\ cresult.issues
             = Concat([k \in 1..Len(analyzers) |->
                 IF analyzers[k] \in ctrace.failed THEN <<>>
                 ELSE FilterBySeverity(config,
                        Analyze(analyzers[k], ctext, "<string>").issues)])
        /\ cresult.metrics
             = ReviewCodeOf(config, analyzers,
                            [ctext EXCEPT !.raising = {}], "<string>").result.metrics

\* the second analyzer raised; the first and the third each contributed
C3_Witness ==
    /\ cpc = "returned"
    /\ ctrace.failed = {"security"}
    /\ \E i, j \in 1..Len(cresult.issues) :
         /\ cresult.issues[i].rule = "complexity"
         /\ cresult.issues[j].rule = "smells"
    /\ cresult.metrics.functions > 0

\* C4: review_code never raises, whatever the parser does on the text.
C4_ReviewCodeNeverRaises == cpc # "raised"

\* the severity a min_severity setting names
ConfiguredSeverity(cfg) == Lower(cfg.min_severity)

AtLeast(sev, min) == severity_order[sev] <= severity_order[min]

\* C5: every issue of the returned FileResult is at least as severe as the
\* configured minimum severity, and every issue an analyzer returned that is
\* at least that severe is retained, in the order it was returned.
C5_SeverityFilter ==
    cpc = "returned" =>
        /\ \A i \in 1..Len(cresult.issues) :
             AtLeast(cresult.issues[i].severity, ConfiguredSeverity(config))
        /\ cresult.issues
             = Concat([k \in 1..Len(analyzers) |->
                 LET out == Analyze(analyzers[k], ctext, "<string>")
                 IN SelectSeq(out.issues, LAMBDA issue :
                        AtLeast(issue.severity, ConfiguredSeverity(config)))])

-----------------------------------------------------------------------------
(* Properties of the FileResult score (SpecScore) *)

CountSeverity(issues, sev) ==
    Cardinality({i \in 1..Len(issues) : issues[i].severity = sev})

\* C10: the score is 100 minus 15 per critical, 10 per high, 5 per medium,
\* 2 per low and 0 per info issue, clamped to [0, 100]; the grade is A from
\* 90, B from 80, C from 70, D from 60, F below.
C10_ScoreAndGrade ==
    LET raw == 100 - 15 * CountSeverity(frIssues, "critical")
                   - 10 * CountSeverity(frIssues, "high")
                   - 5 * CountSeverity(frIssues, "medium")
                   - 2 * CountSeverity(frIssues, "low")
                   - 0 * CountSeverity(frIssues, "info")
    IN /\ frScore = (IF raw < 0 THEN 0 ELSE IF raw > 100 THEN 100 ELSE raw)
       /\ (frGrade = "A") <=> (frScore >= 90)
       /\ (frGrade = "B") <=> (frScore >= 80 /\ frScore < 90)
       /\ (frGrade = "C") <=> (frScore >= 70 /\ frScore < 80)
       /\ (frGrade = "D") <=> (frScore >= 60 /\ frScore < 70)
       /\ (frGrade = "F") <=> (frScore < 60)

\* seven critical issues: the deductions exceed 100 and the score is clamped
C10_Witness ==
    /\ CountSeverity(frIssues, "critical") = 7
    /\ frScore = 0 /\ frGrade = "F"

\* C11: appending an issue of any severity to a FileResult never increases
\* its score; the score is always in [0, 100]; a FileResult with no issue
\* has score 100 and grade "A".
C11_ScoreMonotone ==
    /\ [](frScore \in 0..100)
    /\ [](frIssues = <<>> => (frScore = 100 /\ frGrade = "A"))
    /\ [][frScore' <= frScore]_vars

\* an info issue was appended to a FileResult whose score had dropped
C11_Witness ==
    /\ Len(frIssues) >= 3
    /\ frIssues[Len(frIssues)].severity = "info"
    /\ frIssues[1].severity = "critical"
    /\ frScore \in 1..84

-----------------------------------------------------------------------------
(* Properties of repeated reviews (SpecRepeat) *)

-----------------------------------------------------------------------------
(* Properties of a call on one target (SpecFile) *)

\* C14: review_file and review_directory raise only when nothing is at the
\* path, and then before anything is read or analysed; for every path that
\* exists, a file that cannot be read or decoded included, they return.
C14_RaisesOnlyWhenMissing ==
    /\ fpc \in {"file raised", "directory raised"} =>
          /\ ftarget.on_disk = "nothing"
          /\ fout.reads = 0 /\ ~fout.analyzed
    /\ (fpc # "idle" /\ ftarget.on_disk = "nothing") =>
          fpc \in {"file raised", "directory raised"}

-----------------------------------------------------------------------------
(* Properties of Config construction (SpecConfig) *)

\* C15: a Config is constructed only from a min_severity that is one of
\* critical, high, medium, low, info and an output_format that is one of
\* terminal, json, markdown, html; every other value raises; the severity
\* filter applies the min_severity that was given, not a default.
C15_InvalidConfigRaises ==
    /\ kpc \in {"constructed", "filtered"} =>
          /\ kargs.min_severity \in valid_severities
          /\ kargs.output_format \in valid_formats
    /\ kpc = "raised" =>
          \/ kargs.min_severity \notin valid_severities
          \/ kargs.output_format \notin valid_formats
    /\ kpc = "filtered" =>
          (kprobe.kept <=>
              AtLeast(kprobe.severity, Lower(kargs.min_severity)))

-----------------------------------------------------------------------------
(* Properties of the RuleSet (SpecRules) *)

\* the Rule objects of the set, in dict order
RulesOf(d) == [i \in 1..Len(d) |-> d[i][2]]

\* the issues of a list that a rule reported
IssuesBy(issues, o) == SelectSeq(issues, LAMBDA issue : issue.rule = o)

\* C17: check_all does not raise; it returns, in insertion order, the
\* results of the enabled rules whose checker did not raise; a rule whose
\* checker raised contributes nothing and leaves the issues of the rules
\* before and after it in place; the checkers invoked are exactly those of
\* the enabled rules.
C17_CheckAllContainment ==
    rop.name = "check_all" =>
        LET objs == RulesOf(ruleset)
        IN /\ ~rop.raised
           /\ rop.issues
                = Concat([i \in 1..Len(objs) |->
                    IF ruleEnabled[objs[i]] /\ objs[i] \notin rop.failing
                    THEN CheckerIssues(objs[i]) ELSE <<>>])
           /\ rop.invoked = SelectSeq(objs, LAMBDA o : ruleEnabled[o])

\* three enabled rules, the checker of the second raised, the first and the
\* third reported their issues
C17_Witness ==
    /\ rop.name = "check_all" /\ Len(ruleset) = 3
    /\ \A i \in 1..3 : ruleEnabled[ruleset[i][2]]
    /\ ruleset[2][2] \in rop.failing
    /\ IssuesBy(rop.issues, ruleset[1][2]) # <<>>
    /\ IssuesBy(rop.issues, ruleset[3][2]) # <<>>

\* C18: the ids of the set are unique; len is the number of ids added and
\* not removed since; the ids are in the order of their first add; get(id)
\* is the rule last added under the id, and None for an id not in the set.
C18_RuleSetIdentity ==
    /\ \A i, j \in 1..Len(ruleset) : i # j => ruleset[i][1] # ruleset[j][1]
    /\ Len(ruleset) = Cardinality(SeqRange(added.order))
    /\ DictKeyOrder(ruleset) = added.order
    /\ \A id \in RuleIds :
         RulesGet(ruleset, id)
            = (IF id \in SeqRange(added.order) THEN added.last[id]
               ELSE "None")

\* the rule A2 was just added under the id r1, which the rule A held
\* before; the id is still first of three
C18_Witness ==
    /\ rop.name = "add" /\ rop.obj = "A2"
    /\ Len(ruleset) = 3 /\ ruleset[1] = <<"r1", "A2">>
    /\ "A" \in absentOnce

\* C19: enable(id) and disable(id) leave the set, its order and the flag of
\* every other rule unchanged and set the flag of the rule held under id;
\* for an id not in the set they change nothing; check_all holds no issue
\* of a disabled rule and holds the issues of an enabled rule whose checker
\* did not raise.
C19_ToggleFrame ==
    /\ [][rop'.name \in {"enable", "disable"} =>
            /\ ruleset' = ruleset
            /\ \A o \in RuleObjs :
                 IF RulesGet(ruleset, rop'.id) = o
                 THEN ruleEnabled'[o] = (rop'.name = "enable")
                 ELSE ruleEnabled'[o] = ruleEnabled[o]]_vars
    /\ [](rop.name = "check_all" =>
            \A i \in 1..Len(ruleset) :
                LET o == ruleset[i][2]
                IN IF ruleEnabled[o] /\ o \notin rop.failing
                   THEN IssuesBy(rop.issues, o) = CheckerIssues(o)
                   ELSE IssuesBy(rop.issues, o) = <<>>)

\* a rule that an earlier check_all met disabled is enabled again and its
\* issues are in the result, next to a rule that is disabled now
C19_Witness ==
    /\ rop.name = "check_all" /\ Len(ruleset) = 3
    /\ \E i, j \in 1..Len(ruleset) :
         /\ ruleset[i][2] \in absentOnce /\ ruleEnabled[ruleset[i][2]]
         /\ IssuesBy(rop.issues, ruleset[i][2]) # <<>>
         /\ ~ruleEnabled[ruleset[j][2]]

-----------------------------------------------------------------------------
(* Properties of the enumeration (SpecCollect) *)

\* a file matches an include pattern of the configuration
Included(cfg, path) ==
    \E i \in 1..Len(cfg.include_patterns) :
        PathMatch(path, cfg.include_patterns[i])

\* a file matches an ignore-path or an ignore-file pattern
Ignored(cfg, path) ==
    \/ \E i \in 1..Len(cfg.ignore_paths) : InPathStr(cfg.ignore_paths[i], path)
    \/ \E i \in 1..Len(cfg.ignore_files) : PathMatch(path, cfg.ignore_files[i])

\* C20: the files collected are exactly the .py files of the directory that
\* match an include pattern or match no ignore pattern; the list is sorted
\* by path; the files are handed to review_file in that order.
C20_Enumeration ==
    tpc = "collected" =>
        /\ SeqRange(tfiles)
             = {p \in GlobPy(tdisk, trecursive) :
                   Included(config, p) \/ ~Ignored(config, p)}
        /\ \A i, j \in 1..Len(tfiles) :
             i < j => PartsLess(PartsOf(tfiles[i]), PartsOf(tfiles[j]))
        /\ treviewed = SubSeq(tfiles, 1, Len(treviewed))

-----------------------------------------------------------------------------
(* Properties of the worker pool (SpecPool) *)

\* C21: at every moment at most max_workers file reviews are running; no
\* file is handed to review_file twice; when the run is done every
\* collected file was reviewed exactly once; every run finishes.
C21_BoundedPool ==
    /\ [](/\ Cardinality(running) <= max_workers
          /\ \A p \in DOMAIN fs : reviewCount[p] <= 1
          /\ dpc = "done" => \A p \in DOMAIN fs : reviewCount[p] = 1)
    /\ <>(dpc = "done")

\* the pool is full: max_workers reviews are running, at least two, while
\* a submitted file waits
C21_Witness ==
    /\ dpc = "processing"
    /\ max_workers >= 2 /\ Cardinality(running) = max_workers
    /\ pending # <<>>

-----------------------------------------------------------------------------
(* Complexity and nesting of a function *)

\* the decision points of a node and of the nodes below it: conditionals,
\* loops, exception handlers, context blocks, one per additional operand of
\* a boolean chain, one per comprehension filter, one per assertion
RECURSIVE DecisionPoints(_)
DecisionPoints(node) ==
    (CASE node.kind \in {"If", "IfExp", "For", "AsyncFor", "While",
                         "ExceptHandler", "With", "AsyncWith", "Assert"} -> 1
       [] node.kind = "BoolOp" -> node.count - 1
       [] node.kind = "comprehension" -> node.count
       [] OTHER -> 0)
    + SumSeq([i \in 1..Len(node.children) |->
                DecisionPoints(node.children[i])])

\* the issues of a type reported for the function f
IssuesAbout(out, type) ==
    SelectSeq(out.issues, LAMBDA issue :
        issue.type = type /\ issue.function = "f")

\* C22: a function whose cyclomatic complexity, 1 + its decision points,
\* equals max_complexity gets no high_complexity issue, and the same function
\* with one more decision point gets exactly one, which carries the value
\* max_complexity + 1 and the threshold.
C22_ComplexityBoundary ==
    apc = "analysed" =>
        /\ 1 + DecisionPoints(afunc) = limits.max_complexity
              => IssuesAbout(aout, "high_complexity") = <<>>
        /\ (aprev.analysed
            /\ 1 + DecisionPoints(aprev.func) = limits.max_complexity)
              => /\ IssuesAbout(aprev.out, "high_complexity") = <<>>
                 /\ Len(IssuesAbout(aout, "high_complexity")) = 1
                 /\ IssuesAbout(aout, "high_complexity")[1].value
                        = limits.max_complexity + 1
                 /\ IssuesAbout(aout, "high_complexity")[1].threshold
                        = limits.max_complexity

\* a function at the threshold was reviewed, got one more decision point and
\* was reviewed again
C22_Witness ==
    /\ apc = "analysed" /\ aprev.analysed
    /\ limits.max_complexity >= 2
    /\ 1 + DecisionPoints(aprev.func) = limits.max_complexity
    /\ Len(IssuesAbout(aout, "high_complexity")) = 1

\* C23: for a function whose body is k conditionals nested inside one
\* another the computed nesting depth is k, and a deep_nesting issue is
\* reported iff k > max_nesting_depth; it reports the depth k.
C23_NestingDepth ==
    \A k \in 0..MaxNest :
        (apc = "analysed" /\ afunc = FunctionDef("f", <<NestedIf(k)>>)) =>
            /\ CalculateNestingDepth(afunc) = k
            /\ IssuesAbout(aout, "deep_nesting") =
                  IF k > limits.max_nesting_depth
                  THEN <<FunctionIssue("deep_nesting", "medium", "f", k,
                                       limits.max_nesting_depth)>>
                  ELSE <<>>

\* five levels reviewed with max_nesting_depth = 3
C23_Witness ==
    /\ apc = "analysed" /\ afunc = FunctionDef("f", <<NestedIf(5)>>)
    /\ limits.max_nesting_depth = 3
    /\ IssuesAbout(aout, "deep_nesting") # <<>>

\* the function nodes of the tree reviewed
FunctionsOf(tree) ==
    { n \in SeqRange(Walk(<<tree>>)) :
        n.kind \in {"FunctionDef", "AsyncFunctionDef"} }

\* C27: the Reviewer's metrics and the complexity analyzer compute the same
\* cyclomatic complexity for every function, so Metrics.max_complexity is at
\* least the value of every high_complexity issue of the file.
C27_ComplexityAgreement ==
    apc = "analysed" =>
        /\ \A fn \in FunctionsOf(afunc) :
              CalculateFunctionComplexity(fn) = CalculateComplexity(fn)
        /\ \A i \in 1..Len(aout.issues) :
              aout.issues[i].type = "high_complexity"
                  => aout.max_complexity >= aout.issues[i].value

-----------------------------------------------------------------------------
(* Secret masking *)

\* the literal with only its first two and last two characters kept
TwoAndTwo(literal) ==
    [k \in 1..Len(literal) |->
        IF k <= 2 \/ k > Len(literal) - 2 THEN literal[k] ELSE "*"]

\* C24: the code of every hardcoded_secret issue shows the literal with its
\* first two and last two characters kept and the others replaced by
\* asterisks, and never holds the literal in full, whatever its length.
C24_SecretMasked ==
    mpc = "checked" =>
        \A i \in 1..Len(missues) :
            /\ missues[i].code =
                  <<"password", " ", "=", " ", "\"">> \o TwoAndTwo(msecret)
                      \o <<"\"">>
            /\ ~Contains(missues[i].code, msecret)

-----------------------------------------------------------------------------
(* Parsing during one review *)

\* C25: during one review_code call the text is parsed exactly once and
\* every analyzer is handed that parse result, whether the parse succeeds or
\* fails: no analyzer parses the text again.
C25_ParsedOnce ==
    /\ ppc # "idle" => pparses = 1
    /\ \A i \in 1..Len(phanded) : phanded[i] = ptree

-----------------------------------------------------------------------------
(* Accepted min_severity values in the filter *)

\* C26: every min_severity that Config validation accepts selects the
\* threshold of that severity in the reviewer's filter: a Config built with
\* "HIGH" keeps exactly the issues a Config built with "high" keeps.
C26_AcceptedSeveritySelectsThreshold ==
    kpc = "filtered" =>
        (kprobe.kept <=>
            FilterBySeverity(Config(Lower(kargs.min_severity)),
                             <<Issue("custom", kprobe.severity, "<string>", 1,
                                     "custom")>>) # <<>>)

-----------------------------------------------------------------------------
(* Line counts *)

LineIdentity(metrics) ==
    metrics.lines_of_code + metrics.blank_lines + metrics.comment_lines
        = metrics.total_lines

\* C28: the Metrics of every reviewed file and the aggregate Metrics of
\* review_directory satisfy lines_of_code + blank_lines + comment_lines =
\* total_lines, and the aggregate's line counters are the sums of the
\* counters of the files that were not skipped.
C28_LineCountIdentity ==
    (dpc = "done" /\ review.has_metrics) =>
        LET kept == SelectSeq(review.files, LAMBDA r : ~r.skipped)
        IN /\ \A i \in 1..Len(kept) : LineIdentity(kept[i].metrics)
           /\ LineIdentity(review.metrics)
           /\ review.metrics.total_lines
                = SumSeq([i \in 1..Len(kept) |-> kept[i].metrics.total_lines])
           /\ review.metrics.lines_of_code
                = SumSeq([i \in 1..Len(kept) |->
                            kept[i].metrics.lines_of_code])
           /\ review.metrics.blank_lines
                = SumSeq([i \in 1..Len(kept) |-> kept[i].metrics.blank_lines])
           /\ review.metrics.comment_lines
                = SumSeq([i \in 1..Len(kept) |->
                            kept[i].metrics.comment_lines])

-----------------------------------------------------------------------------
(* Analyzer selection and order *)

\* C29: the active analyzers are the built-ins named in config.analyzers, in
\* the order complexity, security, smells whatever the order of the names,
\* followed by the custom analyzers that are BaseAnalyzer instances in the
\* order given; other names and other objects are ignored; FileResult.issues
\* is the concatenation of the analyzers' filtered issues in that order.
C29_AnalyzerSelection ==
    spc = "constructed" =>
        LET named == {config.analyzers[i] : i \in 1..Len(config.analyzers)}
            builtins == SelectSeq(<<"complexity", "security", "smells">>,
                                  LAMBDA n : n \in named)
            customs == SelectSeq(custom_analyzers,
                                 LAMBDA o : o \in {"custom1", "custom2"})
            active == builtins \o customs
        IN /\ analyzers = active
           /\ cpc # "raised"
           /\ cpc = "returned" =>
                cresult.issues
                  = Concat([k \in 1..Len(active) |->
                      LET out == Analyze(active[k], ctext, "<string>")
                      IN IF out.raised THEN <<>>
                         ELSE FilterBySeverity(config, out.issues)])

\* names out of order with an unknown one, a custom list holding an object
\* that is no analyzer, and a review in which a built-in and a custom
\* analyzer reported
C29_Witness ==
    /\ spc = "constructed" /\ cpc = "returned"
    /\ config.analyzers = <<"smells", "bogus", "complexity", "security">>
    /\ custom_analyzers = <<"object", "custom2", "object", "custom1">>
    /\ \E i, j \in 1..Len(cresult.issues) :
          /\ i < j
          /\ cresult.issues[i].rule = "smells"
          /\ cresult.issues[j].rule = "custom2"

-----------------------------------------------------------------------------
(* Rules built by RuleBuilder *)

\* C30: every issue a built rule emits carries type and rule equal to the
\* Rule's id and severity equal to the Rule's severity as build() fixed it,
\* and nothing done to the builder after build() changes the severity, tags
\* or config of a rule already built.
C30_BuiltRuleFixed ==
    /\ bcheck.name = "check" =>
          \A i \in 1..Len(bcheck.issues) :
              /\ bcheck.issues[i].type = built[bcheck.rule].id
              /\ bcheck.issues[i].rule = built[bcheck.rule].id
              /\ bcheck.issues[i].severity = built[bcheck.rule].severity
    /\ \A r \in 1..Len(built) :
          /\ heap[built[r].tags] = built[r].at_build.tags
          /\ heap[built[r].config] = built[r].at_build.config

====
